---- MODULE Spec2Model ----
(***************************************************************************)
(* Model of the dataset ingestion pipeline of LearningLanguagesOldSchool   *)
(* (src/src/utils/xlsx.ts): header detection and row normalisation.        *)
(*                                                                         *)
(* JavaScript values are tagged records:                                   *)
(*   [kind |-> "string", chars |-> <<c1, ..., cn>>]                        *)
(*   [kind |-> "number", value |-> n]                                      *)
(*   [kind |-> "undefined"]                                                *)
(* A string is the sequence of its code points.  A printable ASCII         *)
(* character stands for itself ("a", "W", " "); any other code point is    *)
(* written by its Unicode name ("U+00F3" is o with acute, "U+0301" the     *)
(* combining acute accent, "U+043F" a Cyrillic letter).                    *)
(***************************************************************************)
EXTENDS Integers, Sequences, FiniteSets, Bags, TLC

(***************************************************************************)
(* Code points and the character classes the code distinguishes            *)
(***************************************************************************)
LowerLetters ==
  << "a", "b", "c", "d", "e", "f", "g", "h", "i", "j", "k", "l", "m",
     "n", "o", "p", "q", "r", "s", "t", "u", "v", "w", "x", "y", "z" >>

UpperLetters ==
  << "A", "B", "C", "D", "E", "F", "G", "H", "I", "J", "K", "L", "M",
     "N", "O", "P", "Q", "R", "S", "T", "U", "V", "W", "X", "Y", "Z" >>

Digits == << "0", "1", "2", "3", "4", "5", "6", "7", "8", "9" >>

Range(s) == { s[i] : i \in 1..Len(s) }

\* /\s/ : space, tab, no-break space (the white space of the modelled alphabet)
Whitespace == { " ", "U+0009", "U+00A0" }

\* /\p{M}/ : combining acute accent, combining diaeresis, combining grave accent
Marks == { "U+0301", "U+0308", "U+0300" }

\* /[a-z0-9]/
AlphaNumeric == Range(LowerLetters) \cup Range(Digits)

\* Precomposed lower-case letters: <<code point, base letter, combining mark>>
\*   U+00F3 o-acute, U+00FC u-diaeresis, U+00E8 e-grave
Precomposed ==
  { << "U+00F3", "o", "U+0301" >>,
    << "U+00FC", "u", "U+0308" >>,
    << "U+00E8", "e", "U+0300" >> }

\* Precomposed upper-case letters: <<code point, its lower-case code point>>
\*   U+00D3 O-acute, U+00DC U-diaeresis, U+00C8 E-grave
PrecomposedUpper ==
  { << "U+00D3", "U+00F3" >>,
    << "U+00DC", "U+00FC" >>,
    << "U+00C8", "U+00E8" >> }

UpperSet == Range(UpperLetters)

\* String.prototype.toLowerCase on one code point
toLowerCaseChar(c) ==
  IF c \in UpperSet
    THEN LowerLetters[CHOOSE i \in 1..Len(UpperLetters) : UpperLetters[i] = c]
  ELSE IF \E p \in PrecomposedUpper : p[1] = c
    THEN (CHOOSE p \in PrecomposedUpper : p[1] = c)[2]
  ELSE c

toLowerCase(s) == [i \in 1..Len(s) |-> toLowerCaseChar(s[i])]

\* String.prototype.normalize('NFD') on one code point: canonical decomposition
decompose(c) ==
  IF c \in AlphaNumeric \/ c \in UpperSet THEN << c >>   \* ASCII has no decomposition
  ELSE IF \E p \in Precomposed : p[1] = c
    THEN LET p == CHOOSE q \in Precomposed : q[1] = c IN << p[2], p[3] >>
  ELSE IF \E p \in PrecomposedUpper : p[1] = c
    THEN LET l == (CHOOSE q \in PrecomposedUpper : q[1] = c)[2]
             p == CHOOSE q \in Precomposed : q[1] = l
         IN  << UpperLetters[CHOOSE i \in 1..Len(LowerLetters) : LowerLetters[i] = p[2]], p[3] >>
  ELSE << c >>

RECURSIVE normalizeNFD(_)
normalizeNFD(s) ==
  IF s = << >> THEN << >> ELSE decompose(Head(s)) \o normalizeNFD(Tail(s))

\* Mutant of removeMarks: the combining marks are left in the text
removeMarks_keepsMarks(s) == s

\* .replace(/\p{M}/gu, '')
removeMarks(s) == SelectSeq(s, LAMBDA c : c \notin Marks)

\* .replace(/[^a-z0-9\s]/g, ' ')
replaceNonAlphanumeric(s) ==
  [i \in 1..Len(s) |-> IF s[i] \in AlphaNumeric \/ s[i] \in Whitespace THEN s[i] ELSE " "]

\* .replace(/\s+/g, ' ') : every maximal run of white space becomes one space
RECURSIVE collapseWhitespace(_)
collapseWhitespace(s) ==
  IF s = << >> THEN << >>
  ELSE IF Head(s) \in Whitespace
    THEN IF Len(s) > 1 /\ s[2] \in Whitespace
           THEN collapseWhitespace(Tail(s))
           ELSE << " " >> \o collapseWhitespace(Tail(s))
  ELSE << Head(s) >> \o collapseWhitespace(Tail(s))

RECURSIVE trimStart(_)
trimStart(s) ==
  IF s # << >> /\ Head(s) \in Whitespace THEN trimStart(Tail(s)) ELSE s

RECURSIVE trimEnd(_)
trimEnd(s) ==
  IF s # << >> /\ s[Len(s)] \in Whitespace
    THEN trimEnd(SubSeq(s, 1, Len(s) - 1))
    ELSE s

\* String.prototype.trim
trim(s) == trimEnd(trimStart(s))

\* String.prototype.includes
includes(s, sub) ==
  \E i \in 1..(Len(s) - Len(sub) + 1) : SubSeq(s, i, i + Len(sub) - 1) = sub

\* String.prototype.split(' ') : the pieces between single spaces
RECURSIVE splitFrom(_, _)
splitFrom(s, piece) ==
  IF s = << >> THEN << piece >>
  ELSE IF Head(s) = " " THEN << piece >> \o splitFrom(Tail(s), << >>)
  ELSE splitFrom(Tail(s), Append(piece, Head(s)))

split(s) == splitFrom(s, << >>)

(***************************************************************************)
(* JavaScript values                                                       *)
(***************************************************************************)
Undefined == [kind |-> "undefined"]

Str(chars) == [kind |-> "string", chars |-> chars]

Num(n) == [kind |-> "number", value |-> n]

RECURSIVE natToString(_)
natToString(n) ==
  IF n < 10 THEN << Digits[n + 1] >>
  ELSE natToString(n \div 10) \o << Digits[(n % 10) + 1] >>

\* String(value ?? '') for a string, an integer or undefined
toStringOrEmpty(v) ==
  IF v.kind = "undefined" THEN << >>
  ELSE IF v.kind = "string" THEN v.chars
  ELSE IF v.value < 0 THEN << "-" >> \o natToString(0 - v.value)
  ELSE natToString(v.value)

\* ToBoolean(value): '' , 0 and undefined are falsy
truthy(v) ==
  IF v.kind = "undefined" THEN FALSE
  ELSE IF v.kind = "string" THEN v.chars # << >>
  ELSE v.value # 0

\* Mutant of at: an index past the end reads the last element
at_clamped(array, index) ==
  IF array = << >> \/ index < 0 THEN Undefined
  ELSE IF index < Len(array) THEN array[index + 1]
  ELSE array[Len(array)]

\* array[index] with a zero-based index: undefined outside the array
at(array, index) ==
  IF index >= 0 /\ index < Len(array) THEN array[index + 1] ELSE Undefined

(***************************************************************************)
(* src/src/utils/xlsx.ts, lines 17-81: keyword tables and header detection *)
(***************************************************************************)
HEADER_ALIASES ==
  [ unknown |->
      << << "p", "a", "r", "o", "l", "a" >>,
         << "p", "a", "r", "o", "l", "a", " ", "s", "c", "o", "n", "o", "s", "c", "i", "u", "t", "a" >>,
         << "s", "c", "o", "n", "o", "s", "c", "i", "u", "t", "a" >>,
         << "u", "n", "k", "n", "o", "w", "n" >>,
         << "w", "o", "r", "d" >>,
         << "f", "r", "e", "m", "d" >> >>,
    translation |->
      << << "t", "r", "a", "d", "u", "z", "i", "o", "n", "e" >>,
         << "t", "r", "a", "n", "s", "l", "a", "t", "i", "o", "n" >>,
         << "m", "e", "a", "n", "i", "n", "g" >>,
         << "b", "e", "d", "e", "u", "t", "u", "n", "g" >>,
         << "u", "b", "e", "r", "s", "e", "t", "z", "u", "n", "g" >>,
         << "U+00FC", "b", "e", "r", "s", "e", "t", "z", "u", "n", "g" >> >>,
    transliteration |->
      << << "t", "r", "a", "s", "l", "i", "t", "t", "e", "r", "a", "z", "i", "o", "n", "e" >>,
         << "t", "r", "a", "n", "s", "l", "i", "t", "e", "r", "a", "t", "i", "o", "n" >>,
         << "t", "r", "a", "s", "c", "r", "i", "z", "i", "o", "n", "e" >>,
         << "t", "r", "a", "n", "s", "c", "r", "i", "p", "t", "i", "o", "n" >> >> ]

ALL_HEADER_KEYWORDS ==
  HEADER_ALIASES.unknown \o HEADER_ALIASES.translation \o HEADER_ALIASES.transliteration

\* Mutant of normalizeHeaderValue: the final trim() is left out
normalizeHeaderValue_untrimmed(value) ==
  collapseWhitespace(replaceNonAlphanumeric(removeMarks(normalizeNFD(toLowerCase(value)))))

normalizeHeaderValue(value) ==
  trim(collapseWhitespace(replaceNonAlphanumeric(removeMarks(normalizeNFD(toLowerCase(value))))))

\* normalizeHeaderValue(alias) of the keywords of the tables, which matchesAlias
\* computes again at every call: the value depends on the keyword alone
normalizedKeywords ==
  [alias \in Range(ALL_HEADER_KEYWORDS) |-> normalizeHeaderValue(alias)]

normalizedAliasOf(alias) ==
  IF alias \in DOMAIN normalizedKeywords
    THEN normalizedKeywords[alias]
    ELSE normalizeHeaderValue(alias)

\* Mutant of matchesAlias: whole cell or whole token only, no substring test
matchesAlias_wholeWords(cell, alias) ==
  IF alias = << >> THEN FALSE
  ELSE LET normalizedAlias == normalizedAliasOf(alias) IN
       IF normalizedAlias = << >> THEN FALSE
       ELSE \/ cell = normalizedAlias
            \/ normalizedAlias \in Range(split(cell))

matchesAlias(cell, alias) ==
  IF alias = << >> THEN FALSE
  ELSE LET normalizedAlias == normalizedAliasOf(alias) IN
       IF normalizedAlias = << >> THEN FALSE
       ELSE \/ cell = normalizedAlias
            \/ includes(cell, normalizedAlias)
            \/ normalizedAlias \in Range(split(cell))

\* aliases.some(...)
includesAlias(cell, aliases) ==
  \E i \in 1..Len(aliases) : matchesAlias(cell, aliases[i])

\* cells.findIndex(...) : scan from the left, -1 when no cell satisfies the test
RECURSIVE findIndexFrom(_, _, _)
findIndexFrom(cells, aliases, index) ==
  IF index >= Len(cells) THEN 0 - 1
  ELSE IF includesAlias(cells[index + 1], aliases) THEN index
  ELSE findIndexFrom(cells, aliases, index + 1)

\* Mutant of locateIndex: a matching column is counted from 1
locateIndex_fromOne(cells, aliases, fallback) ==
  LET index == findIndexFrom(cells, aliases, 0) IN
  IF index >= 0 THEN index + 1 ELSE fallback

\* Mutant of locateIndex: the column is the position, whatever the first row says
locateIndex_positional(cells, aliases, fallback) == fallback

\* Mutant of locateIndex: the result of findIndex is returned as it is, -1 included
locateIndex_noFallback(cells, aliases, fallback) == findIndexFrom(cells, aliases, 0)

locateIndex(cells, aliases, fallback) ==
  LET index == findIndexFrom(cells, aliases, 0) IN
  IF index >= 0 THEN index ELSE fallback

\* Mutant of noRows: the empty grid is not short-circuited
noRows_never(rows) == FALSE

\* !rows.length
noRows(rows) == Len(rows) = 0

\* Outcome of a call that dereferences undefined
TypeError == [threw |-> "TypeError"]

detectHeaders(rows) ==
  IF noRows(rows) THEN [hasHeader |-> FALSE]
  ELSE IF Len(rows) = 0 THEN TypeError   \* firstRow is undefined: firstRow.map throws
  ELSE
    LET firstRow == rows[1]
        normalized == [i \in 1..Len(firstRow) |-> normalizeHeaderValue(toStringOrEmpty(firstRow[i]))]
        hasHeader == \E i \in 1..Len(normalized) : includesAlias(normalized[i], ALL_HEADER_KEYWORDS)
    IN  IF ~hasHeader THEN [hasHeader |-> FALSE]
        ELSE [ hasHeader |-> TRUE,
               indexes |->
                 [ unknown |-> locateIndex(normalized, HEADER_ALIASES.unknown, 0),
                   translation |-> locateIndex(normalized, HEADER_ALIASES.translation, 1),
                   transliteration |-> locateIndex(normalized, HEADER_ALIASES.transliteration, 2) ] ]

threw(outcome) == "threw" \in DOMAIN outcome

(***************************************************************************)
(* src/src/utils/xlsx.ts, lines 83-115: rowsToEntries                      *)
(***************************************************************************)
\* Mutant of effectiveRows: the header row is not sliced off
effectiveRows_keepsHeader(rows, detection) == rows

\* detection.hasHeader ? rows.slice(1) : rows
effectiveRows(rows, detection) ==
  IF detection.hasHeader THEN Tail(rows) ELSE rows

\* Mutant of sliced: the header row is taken off the array itself (shift for slice)
sliced_shift(rows) == Tail(rows)

\* What rows.slice(1) leaves in rows: slice copies, the array keeps every row
sliced(rows) == rows

\* detection.hasHeader ? detection.indexes.<role> : <position>
unknownIndex(detection) == IF detection.hasHeader THEN detection.indexes.unknown ELSE 0

\* Mutant of translationIndex: without a header the translation is read from column 0
translationIndex_zero(detection) ==
  IF detection.hasHeader THEN detection.indexes.translation ELSE 0

translationIndex(detection) == IF detection.hasHeader THEN detection.indexes.translation ELSE 1

transliterationIndex(detection) == IF detection.hasHeader THEN detection.indexes.transliteration ELSE 2

\* transliterationRaw ? String(transliterationRaw ?? '').trim() : undefined
transliterationOf(transliterationRaw) ==
  IF truthy(transliterationRaw) THEN Str(trim(toStringOrEmpty(transliterationRaw))) ELSE Undefined

\* Mutant of isIncomplete: && for ||, a row is dropped only when both texts are empty
isIncomplete_both(unknown, translation) == unknown = << >> /\ translation = << >>

\* !unknown || !translation
isIncomplete(unknown, translation) == unknown = << >> \/ translation = << >>

\* Mutant of push: a record equal to one already collected is merged into it
push_unique(accumulator, entry) ==
  IF entry \in Range(accumulator) THEN accumulator ELSE Append(accumulator, entry)

\* accumulator.push(entry)
push(accumulator, entry) == Append(accumulator, entry)

\* Mutant of looksLikeHeaderRow: || for &&, one matching cell is enough
looksLikeHeaderRow_either(unknown, translation) ==
  \/ includesAlias(normalizeHeaderValue(unknown), HEADER_ALIASES.unknown)
  \/ includesAlias(normalizeHeaderValue(translation), HEADER_ALIASES.translation)

\* includesAlias(normalizeHeaderValue(unknown), HEADER_ALIASES.unknown) && ... translation
looksLikeHeaderRow(unknown, translation) ==
  /\ includesAlias(normalizeHeaderValue(unknown), HEADER_ALIASES.unknown)
  /\ includesAlias(normalizeHeaderValue(translation), HEADER_ALIASES.translation)

\* The reduce callback: the accumulator after one row
reduceCallback(accumulator, row, detection) ==
  LET unknownRaw == at(row, unknownIndex(detection))
      translationRaw == at(row, translationIndex(detection))
      transliterationRaw == at(row, transliterationIndex(detection))
      unknown == trim(toStringOrEmpty(unknownRaw))
      translation == trim(toStringOrEmpty(translationRaw))
      transliteration == transliterationOf(transliterationRaw)
  IN  IF isIncomplete(unknown, translation) THEN accumulator
      ELSE IF looksLikeHeaderRow(unknown, translation) THEN accumulator
      ELSE push(accumulator,
                [ unknown |-> unknown,
                  translation |-> translation,
                  transliteration |-> transliteration ])

\* effectiveRows.reduce(callback, []) from row i on
RECURSIVE reduceFrom(_, _, _, _)
reduceFrom(effective, detection, accumulator, i) ==
  IF i > Len(effective) THEN accumulator
  ELSE reduceFrom(effective, detection, reduceCallback(accumulator, effective[i], detection), i + 1)

\* rowsToEntries as a function of the grid: the returned records, or the error thrown
rowsToEntries(rows) ==
  IF noRows(rows) THEN << >>
  ELSE LET detection == detectHeaders(rows) IN
       IF threw(detection) THEN TypeError
       ELSE reduceFrom(effectiveRows(rows, detection), detection, << >>, 1)

(***************************************************************************)
(* src/src/utils/xlsx.ts, lines 117-131: readWorkbook                      *)
(* A workbook is [SheetNames, Sheets]; a worksheet is its rows from the    *)
(* top, a row its cells from the left, << >> a row without cells.          *)
(***************************************************************************)
Max(S) == CHOOSE x \in S : \A y \in S : x >= y

\* defval: '' : a row is filled with '' up to the width of the sheet
padded(row, width) ==
  [i \in 1..width |-> IF i <= Len(row) THEN row[i] ELSE Str(<< >>)]

\* XLSX.utils.sheet_to_json(worksheet, { header: 1, blankrows: false, defval: '' })
sheet_to_json(worksheet) ==
  LET width == Max({ 0 } \cup { Len(worksheet[r]) : r \in 1..Len(worksheet) })
      filled == SelectSeq(worksheet, LAMBDA row : row # << >>)
  IN  [r \in 1..Len(filled) |-> padded(filled[r], width)]

\* Mutant of firstSheetName: the last sheet of the workbook
firstSheetName_last(workbook) ==
  IF Len(workbook.SheetNames) = 0 THEN Undefined
  ELSE workbook.SheetNames[Len(workbook.SheetNames)]

\* const [firstSheetName] = workbook.SheetNames
firstSheetName(workbook) ==
  IF Len(workbook.SheetNames) = 0 THEN Undefined ELSE workbook.SheetNames[1]

\* readWorkbook as a function of the workbook: the records, or the error thrown
readWorkbook(workbook) ==
  IF ~truthy(firstSheetName(workbook)) THEN << >>
  ELSE rowsToEntries(sheet_to_json(workbook.Sheets[firstSheetName(workbook)]))

(***************************************************************************)
(* src/src/utils/xlsx.ts, lines 133-151: readFile and readFromUrl          *)
(* A payload is what the file or the response body holds: the workbook     *)
(* XLSX.read makes of it under each type, or the error it throws.          *)
(***************************************************************************)
Null == [kind |-> "null"]

\* The outcome of a call: the value returned, or the Error thrown
Ok(value) == [threw |-> FALSE, value |-> value]

Thrown(message) == [threw |-> TRUE, message |-> message]

\* XLSX.read(payload, { type })
XLSX_read(payload, type) == payload[type]

TextCsv == << "t", "e", "x", "t", "/", "c", "s", "v" >>

FormatCsv == << "f", "o", "r", "m", "a", "t", "=", "c", "s", "v" >>

\* Mutant of isCsv: the URL is not looked at
isCsv_contentTypeOnly(contentType, url) ==
  contentType.kind = "string" /\ includes(contentType.chars, TextCsv)

\* contentType?.includes('text/csv') || url.includes('format=csv')
isCsv(contentType, url) ==
  \/ contentType.kind = "string" /\ includes(contentType.chars, TextCsv)
  \/ includes(url, FormatCsv)

\* isCsv ? XLSX.read(payload, { type: 'string' }) : XLSX.read(payload, { type: 'array' })
readType(csv) == IF csv THEN "string" ELSE "array"

\* XLSX.read, then readWorkbook on the workbook when XLSX.read returned one
parse(payload, type) ==
  LET read == XLSX_read(payload, type) IN
  IF read.threw THEN read ELSE Ok(readWorkbook(read.value))

\* Mutant of notOk: every response is taken for a success
notOk_never(response) == FALSE

\* !response.ok
notOk(response) == ~response.ok

(***************************************************************************)
(* The two earlier copies of the header logic: the second half of          *)
(* src/src/utils/xlsx.ts (lines 153-257) and the functions inside          *)
(* src/unnamed/part_000 (lines 47-105)                                     *)
(***************************************************************************)
HEADER_KEYWORDS ==
  << << "p", "a", "r", "o", "l", "a" >>,
     << "u", "n", "k", "n", "o", "w", "n" >>,
     << "t", "r", "a", "d", "u", "z", "i", "o", "n", "e" >>,
     << "t", "r", "a", "n", "s", "l", "a", "t", "i", "o", "n" >>,
     << "t", "r", "a", "s", "l", "i", "t", "t", "e", "r", "a", "z", "i", "o", "n", "e" >>,
     << "t", "r", "a", "n", "s", "l", "i", "t", "e", "r", "a", "t", "i", "o", "n" >> >>

UnknownKeywords == << << "p", "a", "r", "o", "l", "a" >>, << "u", "n", "k", "n", "o", "w", "n" >> >>

TranslationKeywords == << << "t", "r", "a", "d", "u", "z", "i", "o", "n", "e" >>, << "t", "r", "a", "n", "s", "l", "a", "t", "i", "o", "n" >> >>

TransliterationKeywords == << << "t", "r", "a", "s", "l", "i", "t", "t", "e", "r", "a", "z", "i", "o", "n", "e" >>, << "t", "r", "a", "n", "s", "l", "i", "t", "e", "r", "a", "t", "i", "o", "n" >> >>

\* firstRow.map((cell) => String(cell ?? '').toLowerCase())
lowerCased(firstRow) ==
  [i \in 1..Len(firstRow) |-> toLowerCase(toStringOrEmpty(firstRow[i]))]

\* aliases.some((alias) => cell.includes(alias))
includesKeyword(cell, aliases) ==
  \E i \in 1..Len(aliases) : includes(cell, aliases[i])

\* cells.findIndex(...) : the zero-based position of the first such cell, or -1
RECURSIVE findKeywordFrom(_, _, _)
findKeywordFrom(cells, aliases, index) ==
  IF index >= Len(cells) THEN Num(0 - 1)
  ELSE IF includesKeyword(cells[index + 1], aliases) THEN Num(index)
  ELSE findKeywordFrom(cells, aliases, index + 1)

\* locateIndex of the second copy in xlsx.ts, locate of part_000
locateIndex_legacy(cells, aliases) == findKeywordFrom(cells, aliases, 0)

\* value ?? fallback : the fallback for null and undefined, and for nothing else
nullish(value, fallback) ==
  IF value.kind \in { "undefined", "null" } THEN fallback ELSE value

\* index >= 0 ? index : fallback
nonNegativeOr(index, fallback) ==
  IF index.value >= 0 THEN index ELSE fallback

\* detectHeaders of the second copy in xlsx.ts (lines 174-195)
detectHeaders_legacy(rows) ==
  IF Len(rows) = 0 THEN [hasHeader |-> FALSE]
  ELSE LET normalized == lowerCased(rows[1])
           hasHeader ==
             \E i \in 1..Len(normalized) : includesKeyword(normalized[i], HEADER_KEYWORDS)
       IN  IF ~hasHeader THEN [hasHeader |-> FALSE]
           ELSE [ hasHeader |-> TRUE,
                  indexes |->
                    [ unknown |->
                        nullish(locateIndex_legacy(normalized, UnknownKeywords), Num(0)).value,
                      translation |->
                        nullish(locateIndex_legacy(normalized, TranslationKeywords), Num(1)).value,
                      transliteration |->
                        nullish(locateIndex_legacy(normalized, TransliterationKeywords),
                                Num(2)).value ] ]

\* detectHeaders of part_000 (lines 49-78)
detectHeaders_inline(rows) ==
  IF Len(rows) = 0 THEN [hasHeader |-> FALSE]
  ELSE LET normalized == lowerCased(rows[1])
           hasHeader ==
             \E i \in 1..Len(normalized) : includesKeyword(normalized[i], HEADER_KEYWORDS)
           unknownIndex_ == locateIndex_legacy(normalized, UnknownKeywords)
           translationIndex_ == locateIndex_legacy(normalized, TranslationKeywords)
           transliterationIndex_ == locateIndex_legacy(normalized, TransliterationKeywords)
       IN  IF ~hasHeader THEN [hasHeader |-> FALSE]
           ELSE [ hasHeader |-> TRUE,
                  indexes |->
                    [ unknown |-> nonNegativeOr(unknownIndex_, Num(0)).value,
                      translation |-> nonNegativeOr(translationIndex_, Num(1)).value,
                      transliteration |-> nonNegativeOr(transliterationIndex_, Num(2)).value ] ]

\* The record both copies make of a row read at the three indexes, or undefined
\* when the unknown or the translation text is empty
entryOf(row, unknownAt, translationAt, transliterationAt) ==
  LET unknown == trim(toStringOrEmpty(at(row, unknownAt)))
      translation == trim(toStringOrEmpty(at(row, translationAt)))
      transliteration == transliterationOf(at(row, transliterationAt))
  IN  IF isIncomplete(unknown, translation) THEN Undefined
      ELSE [unknown |-> unknown, translation |-> translation,
            transliteration |-> transliteration]

\* effectiveRows.map(...).filter(...) and effectiveRows.reduce(...) alike: the
\* records of the rows that give one, in the order of the rows
entriesOf(effective, detection) ==
  LET unknownAt == IF detection.hasHeader THEN detection.indexes.unknown ELSE 0
      translationAt == IF detection.hasHeader THEN detection.indexes.translation ELSE 1
      transliterationAt == IF detection.hasHeader THEN detection.indexes.transliteration ELSE 2
      mapped == [i \in 1..Len(effective) |->
                   entryOf(effective[i], unknownAt, translationAt, transliterationAt)]
  IN  SelectSeq(mapped, LAMBDA entry : entry # Undefined)

\* rowsToEntries of the second copy in xlsx.ts (lines 197-221)
rowsToEntries_legacy(rows) ==
  IF Len(rows) = 0 THEN << >>
  ELSE LET detection == detectHeaders_legacy(rows) IN
       entriesOf(IF detection.hasHeader THEN Tail(rows) ELSE rows, detection)

\* rowsToEntries of part_000 (lines 80-105)
rowsToEntries_inline(rows) ==
  IF Len(rows) = 0 THEN << >>
  ELSE LET detection == detectHeaders_inline(rows) IN
       entriesOf(IF detection.hasHeader THEN Tail(rows) ELSE rows, detection)

(***************************************************************************)
(* Bounds and the grids the calls are made on                              *)
(***************************************************************************)
\* Largest number of cells in a row
MaxCols == 3

\* Largest number of data rows after the first row
MaxDataRows == 3

SeqsUpTo(S, n) == UNION { [1..k -> S] : k \in 0..n }

Word == Str(<< "W", "o", "r", "d" >>)

Meaning == Str(<< "M", "e", "a", "n", "i", "n", "g" >>)

Traduzione == Str(<< "T", "r", "a", "d", "u", "z", "i", "U+00F3", "n", "e" >>)

Trascrizione == Str(<< "T", "R", "A", "S", "C", "R", "I", "Z", "I", "O", "N", "E" >>)

Cat == Str(<< "c", "a", "t" >>)

PaddedCat == Str(<< " ", "c", "a", "t" >>)

Gatto == Str(<< "g", "a", "t", "t", "o", "U+0009" >>)

Neko == Str(<< "n", "e", "k", "o" >>)

Empty == Str(<< >>)

Blank == Str(<< " " >>)

\* Cells of a first row: one label per role (mixed case, accented, upper case)
\* and a number, which is no keyword
HeaderCells == { Word, Meaning, Traduzione, Trascrizione, Num(7) }

\* Cells of a data row: padded text, text ending in a tab, the empty string,
\* white space only, and the number zero
DataCells == { PaddedCat, Gatto, Empty, Blank, Num(0) }

SampleRow == << Cat, Gatto, Neko >>

\* Every first row, alone or followed by one complete data row
HeaderGrids ==
  { << first >> : first \in SeqsUpTo(HeaderCells, MaxCols) }
    \cup { << first, SampleRow >> : first \in SeqsUpTo(HeaderCells, MaxCols) }

FirstRows ==
  { << Word, Meaning, Trascrizione >>,
    << Meaning, Word >>,
    << Trascrizione, Cat, Word >>,
    << Cat, Gatto >> }

\* Every data row (ragged rows included) under a few first rows
DataGrids ==
  { << first, row >> : first \in FirstRows, row \in SeqsUpTo(DataCells, MaxCols) }

SmallRows ==
  { << Cat, Gatto >>,
    << Gatto, Cat, Neko >>,
    << Empty, Gatto >>,
    << Word, Meaning >> }

\* Up to MaxDataRows rows, repeated rows included, with and without a header
LongGrids ==
  { << first >> \o data :
      first \in { << Word, Meaning >>, << Cat, Gatto >> },
      data \in SeqsUpTo(SmallRows, MaxDataRows) }

\* Data rows of two cells that are labels or words, under three first rows
LabelGrids ==
  { << first, << a, b >> >> :
      first \in { << Word, Meaning >>, << Meaning, Word >>, << Cat, Gatto >> },
      a \in { Word, Traduzione, Cat },
      b \in { Word, Traduzione, Cat } }

\* A keyword inside a longer word, a keyword between punctuation, a broken keyword
Passwords == Str(<< "P", "a", "s", "s", "w", "o", "r", "d", "s" >>)

MyWord == Str(<< "M", "y", "-", "W", "o", "r", "d", "!" >>)

BrokenWord == Str(<< "w", "o", "r", " ", "d" >>)

\* First rows whose cells hold a keyword without being one
NearLabelGrids ==
  { << << cell >> >> : cell \in { Passwords, MyWord, BrokenWord } }
    \cup { << << Cat, cell >>, SampleRow >> : cell \in { Passwords, MyWord, BrokenWord } }

\* Labels of the earlier copies' keyword list, and one that is not in it
Parola == Str(<< "P", "a", "r", "o", "l", "a" >>)

Significato == Str(<< "S", "i", "g", "n", "i", "f", "i", "c", "a", "t", "o" >>)

Translation == Str(<< "T", "r", "a", "n", "s", "l", "a", "t", "i", "o", "n" >>)

Transliteration == Str(<< "T", "r", "a", "n", "s", "l", "i", "t", "e", "r", "a", "t", "i", "o", "n" >>)

KeywordCells == { Parola, Significato, Translation, Transliteration }

\* First rows of such labels, alone or followed by data rows
KeywordGrids ==
  { << first >> \o data :
      first \in SeqsUpTo(KeywordCells, MaxCols),
      data \in { << >>, << SampleRow >>, << << Gatto, Cat >>, SampleRow >> } }

\* The texts normalizeHeaderValue is called on: an upper-case and a lower-case
\* letter, a digit, the three kinds of white space, a hyphen, an accented
\* capital in one code point, and a combining accent
MaxChars == 4

HeaderChars == { "W", "o", "7", " ", "U+0009", "U+00A0", "-", "U+00D3", "U+0301" }

HeaderTexts == SeqsUpTo(HeaderChars, MaxChars)

Grids ==
  { << >> } \cup HeaderGrids \cup DataGrids \cup LongGrids \cup LabelGrids \cup NearLabelGrids

(***************************************************************************)
(* The workbooks readWorkbook is called on                                 *)
(***************************************************************************)
\* A header, two words, and a row without cells between them
WordsSheet == << << Word, Meaning >>, SampleRow, << >>, << Gatto, Cat >> >>

\* One word, no header
OtherSheet == << << Neko, Cat >> >>

\* A header and nothing under it
LabelsSheet == << << Word, Meaning, Trascrizione >> >>

\* Rows without cells only
BlankSheet == << << >>, << >> >>

NoRowsSheet == << >>

Worksheets == { WordsSheet, OtherSheet, LabelsSheet, BlankSheet, NoRowsSheet }

Sheet1 == Str(<< "S", "h", "e", "e", "t", "1" >>)

Sheet2 == Str(<< "S", "h", "e", "e", "t", "2" >>)

NoSheets == [SheetNames |-> << >>, Sheets |-> << >>]

OneSheet(worksheet) ==
  [SheetNames |-> << Sheet1 >>, Sheets |-> (Sheet1 :> worksheet)]

TwoSheets(first, second) ==
  [SheetNames |-> << Sheet1, Sheet2 >>, Sheets |-> (Sheet1 :> first @@ Sheet2 :> second)]

\* The sheets are kept by name: here the first sheet of the workbook is "Sheet2"
TwoSheetsSwapped(first, second) ==
  [SheetNames |-> << Sheet2, Sheet1 >>, Sheets |-> (Sheet1 :> second @@ Sheet2 :> first)]

Workbooks ==
  { NoSheets }
    \cup { OneSheet(w) : w \in Worksheets }
    \cup { TwoSheets(w, v) : w \in Worksheets, v \in Worksheets }
    \cup { TwoSheetsSwapped(w, v) : w \in { WordsSheet, NoRowsSheet }, v \in { OtherSheet, WordsSheet } }

Message(text) == [kind |-> "string", text |-> text]

PlainUrl == << "h", "t", "t", "p", "s", ":", "/", "/", "d", "/", "e" >>

CsvUrl == PlainUrl \o << "?" >> \o FormatCsv

\* The URLs readFromUrl is called on
SheetUrls == { PlainUrl, CsvUrl }

CsvType == Str(TextCsv \o << ";", " ", "c", "h", "a", "r", "s", "e", "t", "=", "u", "t", "f", "-", "8" >>)

ZipType == Str(<< "a", "p", "p", "l", "i", "c", "a", "t", "i", "o", "n", "/", "z", "i", "p" >>)

\* What fetch(url) settles with: a rejection, or a response (ok, content-type header)
FetchOutcomes ==
  { Thrown("Failed to fetch"), Ok([ok |-> FALSE, contentType |-> Null]) }
    \cup { Ok([ok |-> TRUE, contentType |-> type]) : type \in { Null, CsvType, ZipType } }

\* A spreadsheet file: XLSX.read throws when it is given as text
XlsxOf(book) == [array |-> Ok(book), string |-> Thrown("Unsupported file")]

\* A CSV text: XLSX.read makes the same one-sheet workbook of its bytes and of its text
CsvOf(book) == [array |-> Ok(book), string |-> Ok(book)]

Garbage == [array |-> Thrown("Unsupported file"), string |-> Thrown("Unsupported file")]

Payloads ==
  { XlsxOf(OneSheet(WordsSheet)), XlsxOf(NoSheets), CsvOf(OneSheet(OtherSheet)),
    CsvOf(OneSheet(LabelsSheet)), Garbage }

\* What file.arrayBuffer(), response.text() or response.arrayBuffer() settles with
ReadOutcomes == { Thrown("Failed to read") } \cup { Ok(payload) : payload \in Payloads }

TheFile == [name |-> Message("words.xlsx")]

(***************************************************************************)
(* State: one call of an export of src/src/utils/xlsx.ts                   *)
(***************************************************************************)
VARIABLES
  rows,         \* the grid the call is made on
  pc,           \* "idle", "arrayBuffer", "fetch", "payload", "reduce", "returned",
                \* "decided", "threw" or "rejected"
  detection,    \* rowsToEntries' local, or the value detectHeaders returned
  cursor,       \* the position of the reduce in effectiveRows (from 1)
  accumulator,  \* the reduce's accumulator; the returned array once pc = "returned"
  origin,       \* history: origin[k] is the grid row that accumulator[k] was built from
  given,        \* history: the grid as the caller passed it
  workbook,     \* the workbook readWorkbook was called on, if it was
  transport     \* the locals of readFile or readFromUrl, if one of them was called

\* The application around the pipeline (src/src/App.tsx, src/unnamed/part_000)
VARIABLES
  variant,            \* which of the two applications runs: "App.tsx" or "part_000"
  screen,             \* ScreenState
  learningLanguages,  \* the codes ticked, as a set
  entries,            \* WordEntry[] of the loaded dataset
  fileName,           \* App.tsx only
  loadError,          \* Null or the message shown
  isLoadingSheet,
  googleSheetUrl,     \* the text of the URL field
  quizState,          \* App.tsx: one object; part_000: one useState per field
  inFlight,           \* bag of the imports that wait for a promise or an event
  settled,            \* history: what the last step resumed on (an import that ended) or
                      \* left behind (a quiz that started), if it did
  parsed              \* parse(payload, type) of the payloads, worked out once at the start

\* The two earlier copies of the header logic, called on the same grid
VARIABLES
  legacy        \* what each copy returned, if they were called

\* One call of normalizeHeaderValue
VARIABLES
  normalized    \* the text it was given and the text it returned, if it was called

coreVars ==
  << rows, pc, detection, cursor, accumulator, origin, given, workbook, transport >>

appVars ==
  << variant, screen, learningLanguages, entries, fileName, loadError, isLoadingSheet,
     googleSheetUrl, quizState, inFlight, settled, parsed >>

vars ==
  << rows, pc, detection, cursor, accumulator, origin, given, workbook, transport,
     variant, screen, learningLanguages, entries, fileName, loadError, isLoadingSheet,
     googleSheetUrl, quizState, inFlight, settled, parsed, legacy, normalized >>

\* A local that holds nothing yet
Unset == [unset |-> TRUE]

\* No call of the pipeline has been made
coreInit ==
  /\ rows = << >>
  /\ pc = "idle"
  /\ detection = Unset
  /\ cursor = 1
  /\ accumulator = << >>
  /\ origin = << >>
  /\ given = << >>
  /\ workbook = Unset
  /\ transport = Unset

\* createEmptyQuizState()
createEmptyQuizState ==
  [currentIndex |-> 0, guess |-> << >>, feedback |-> Null, isAnswered |-> FALSE,
   responses |-> << >>]

\* Mutant of resetQuiz: the state of the quiz is left as it is
resetQuiz_keeps(state) == state

\* resetQuiz() (App.tsx), resetQuizState() (part_000): what the quiz state is set to
resetQuiz(state) == createEmptyQuizState

\* The useState initial values of App
appInit ==
  /\ screen = "intro"
  /\ learningLanguages = { }
  /\ entries = << >>
  /\ fileName = Null
  /\ loadError = Null
  /\ isLoadingSheet = FALSE
  /\ googleSheetUrl = << >>
  /\ quizState = createEmptyQuizState
  /\ inFlight = EmptyBag
  /\ settled = Unset

Init ==
  /\ coreInit
  /\ variant = "App.tsx"
  /\ appInit
  /\ parsed = << >>
  /\ legacy = Unset
  /\ normalized = Unset

\* rowsToEntries(grid), up to the start of the reduce
rowsToEntries_enter(grid) ==
  /\ given' = grid
  /\ cursor' = 1
  /\ origin' = << >>
  /\ accumulator' = << >>
  /\ IF noRows(grid)
       THEN /\ pc' = "returned"
            /\ detection' = Unset
            /\ rows' = grid
       ELSE LET outcome == detectHeaders(grid) IN
            /\ detection' = outcome
            /\ pc' = IF threw(outcome) THEN "threw" ELSE "reduce"
            /\ rows' = IF ~threw(outcome) /\ outcome.hasHeader THEN sliced(grid) ELSE grid
  /\ UNCHANGED << appVars, legacy, normalized >>

\* rowsToEntries(grid), called on its own
rowsToEntries_call(grid) ==
  /\ pc = "idle"
  /\ rowsToEntries_enter(grid)
  /\ workbook' = Unset
  /\ UNCHANGED transport

\* readWorkbook(book), up to the start of the reduce of its rowsToEntries
readWorkbook_enter(book) ==
  /\ workbook' = book
  /\ IF ~truthy(firstSheetName(book))
       THEN /\ pc' = "returned"
            /\ accumulator' = << >>
            /\ UNCHANGED << rows, detection, cursor, origin, given >>
            /\ UNCHANGED << appVars, legacy, normalized >>
       ELSE rowsToEntries_enter(sheet_to_json(book.Sheets[firstSheetName(book)]))

\* readWorkbook(book), called on its own
readWorkbook_call(book) ==
  /\ pc = "idle"
  /\ readWorkbook_enter(book)
  /\ UNCHANGED transport

\* The promise of readFile or readFromUrl is rejected with the error thrown
raise ==
  /\ pc' = "rejected"
  /\ UNCHANGED << rows, detection, cursor, accumulator, origin, given, workbook >>
  /\ UNCHANGED << appVars, legacy, normalized >>

\* XLSX.read(payload, { type }), then readWorkbook on the workbook it returned
readPayload(payload, type) ==
  LET read == XLSX_read(payload, type) IN
  IF read.threw THEN raise ELSE readWorkbook_enter(read.value)

\* readFile(file), up to await file.arrayBuffer()
readFile_call(file) ==
  /\ pc = "idle"
  /\ pc' = "arrayBuffer"
  /\ transport' = [call |-> "readFile", file |-> file]
  /\ UNCHANGED << rows, detection, cursor, accumulator, origin, given, workbook >>
  /\ UNCHANGED << appVars, legacy, normalized >>

\* file.arrayBuffer() has settled
readFile_resume(data) ==
  /\ pc = "arrayBuffer"
  /\ IF data.threw
       THEN /\ raise
            /\ UNCHANGED transport
       ELSE /\ readPayload(data.value, "array")
            /\ transport' = [call |-> "readFile", file |-> transport.file,
                             payload |-> data.value, type |-> "array"]

\* readFromUrl(url), up to await fetch(url)
readFromUrl_call(url) ==
  /\ pc = "idle"
  /\ pc' = "fetch"
  /\ transport' = [call |-> "readFromUrl", url |-> url]
  /\ UNCHANGED << rows, detection, cursor, accumulator, origin, given, workbook >>
  /\ UNCHANGED << appVars, legacy, normalized >>

\* fetch(url) has settled: up to await response.text() or await response.arrayBuffer()
readFromUrl_fetched(fetched) ==
  /\ pc = "fetch"
  /\ IF fetched.threw
       THEN /\ raise
            /\ UNCHANGED transport
     ELSE IF notOk(fetched.value)
       THEN /\ raise
            /\ transport' = [call |-> "readFromUrl", url |-> transport.url,
                             response |-> fetched.value]
     ELSE /\ pc' = "payload"
          /\ transport' = [call |-> "readFromUrl", url |-> transport.url,
                           response |-> fetched.value,
                           isCsv |-> isCsv(fetched.value.contentType, transport.url)]
          /\ UNCHANGED << rows, detection, cursor, accumulator, origin, given, workbook >>
          /\ UNCHANGED << appVars, legacy, normalized >>

\* response.text() or response.arrayBuffer() has settled
readFromUrl_resume(body) ==
  /\ pc = "payload"
  /\ IF body.threw
       THEN /\ raise
            /\ UNCHANGED transport
       ELSE /\ readPayload(body.value, readType(transport.isCsv))
            /\ transport' = [call |-> "readFromUrl", url |-> transport.url,
                             response |-> transport.response, isCsv |-> transport.isCsv,
                             payload |-> body.value, type |-> readType(transport.isCsv)]

\* One iteration of the reduce over effectiveRows
rowsToEntries_reduce ==
  /\ pc = "reduce"
  /\ cursor <= Len(effectiveRows(rows, detection))
  /\ LET row == effectiveRows(rows, detection)[cursor]
         next == reduceCallback(accumulator, row, detection)
         gridRow == cursor + Len(rows) - Len(effectiveRows(rows, detection))
     IN  /\ accumulator' = next
         /\ origin' = IF Len(next) > Len(accumulator) THEN Append(origin, gridRow) ELSE origin
  /\ cursor' = cursor + 1
  /\ UNCHANGED << rows, pc, detection, given, workbook, transport >>
  /\ UNCHANGED << appVars, legacy, normalized >>

\* The reduce is over: rowsToEntries returns the accumulator
rowsToEntries_return ==
  /\ pc = "reduce"
  /\ cursor > Len(effectiveRows(rows, detection))
  /\ pc' = "returned"
  /\ UNCHANGED << rows, detection, cursor, accumulator, origin, given, workbook, transport >>
  /\ UNCHANGED << appVars, legacy, normalized >>

\* detectHeaders(grid), called on its own
detectHeaders_call(grid) ==
  /\ pc = "idle"
  /\ rows' = grid
  /\ given' = grid
  /\ LET outcome == detectHeaders(grid) IN
     /\ detection' = outcome
     /\ pc' = IF threw(outcome) THEN "threw" ELSE "decided"
  /\ UNCHANGED << cursor, accumulator, origin, workbook, transport >>
  /\ UNCHANGED << appVars, legacy, normalized >>

\* rowsToEntries of each of the two earlier copies, called on the grid
rowsToEntries_legacy_call(grid) ==
  /\ pc = "idle"
  /\ pc' = "compared"
  /\ rows' = grid
  /\ given' = grid
  /\ legacy' = [ xlsx |-> [ detection |-> detectHeaders_legacy(grid),
                            entries |-> rowsToEntries_legacy(grid) ],
                 part_000 |-> [ detection |-> detectHeaders_inline(grid),
                                entries |-> rowsToEntries_inline(grid) ] ]
  /\ UNCHANGED << detection, cursor, accumulator, origin, workbook, transport >>
  /\ UNCHANGED << appVars, normalized >>

\* normalizeHeaderValue(value)
normalizeHeaderValue_call(value) ==
  /\ pc = "idle"
  /\ pc' = "normalized"
  /\ normalized' = [value |-> value, result |-> normalizeHeaderValue(value)]
  /\ UNCHANGED << rows, detection, cursor, accumulator, origin, given, workbook, transport >>
  /\ UNCHANGED << appVars, legacy >>

Next ==
  \/ \E value \in HeaderTexts : normalizeHeaderValue_call(value)
  \/ \E grid \in Grids \cup KeywordGrids : rowsToEntries_legacy_call(grid)
  \/ \E grid \in Grids : rowsToEntries_call(grid)
  \/ \E book \in Workbooks : readWorkbook_call(book)
  \/ rowsToEntries_reduce
  \/ rowsToEntries_return
  \/ \E grid \in Grids : detectHeaders_call(grid)
  \/ readFile_call(TheFile)
  \/ \E data \in ReadOutcomes : readFile_resume(data)
  \/ \E url \in SheetUrls : readFromUrl_call(url)
  \/ \E fetched \in FetchOutcomes : readFromUrl_fetched(fetched)
  \/ \E body \in ReadOutcomes : readFromUrl_resume(body)

Spec == Init /\ [][Next]_vars

(***************************************************************************)
(* The application: src/src/App.tsx and its earlier single-file form,      *)
(* src/unnamed/part_000.  A handler runs whenever the element it is bound  *)
(* to is rendered; an awaited promise or a FileReader event splits a       *)
(* handler in steps.  The environment picks what a file or a response      *)
(* holds when it is read.                                                  *)
(***************************************************************************)
\* Largest number of imports in flight together
MaxInFlight == 2

Variants == { "App.tsx", "part_000" }

LanguageCodes == { "ja" }

\* What is typed in the URL field: nothing yet, or the address of a sheet
Urls == { << >>, PlainUrl }

\* Two spreadsheets whose content is known when the import starts: an .xlsx of
\* the words sheet, and a CSV export of the other sheet
WordsFile == [name |-> Message("words.xlsx"), data |-> Ok(XlsxOf(OneSheet(WordsSheet)))]

OtherFile == [name |-> Message("other.csv"), data |-> Ok(CsvOf(OneSheet(OtherSheet)))]

KnownFiles == { WordsFile, OtherFile }

WordsUrl == PlainUrl \o << "/", "w" >>

OtherUrl == PlainUrl \o << "/", "o", "?" >> \o FormatCsv

KnownUrls == { << >>, WordsUrl, OtherUrl }

\* file.arrayBuffer(), or the load event of the FileReader: the bytes of a known
\* file, or whatever the read of another file comes to
readsOf(file) ==
  IF "data" \in DOMAIN file THEN { file.data } ELSE ReadOutcomes

\* fetch(url) and the read of the body: the sheet of a known address, or whatever
\* the server of another address answers (the body is not read after a failure)
served(url) ==
  IF url = WordsUrl
    THEN { << Ok([ok |-> TRUE, contentType |-> ZipType]), Ok(XlsxOf(OneSheet(WordsSheet))) >> }
  ELSE IF url = OtherUrl
    THEN { << Ok([ok |-> TRUE, contentType |-> Null]), Ok(CsvOf(OneSheet(OtherSheet))) >> }
  ELSE UNION { { << fetched, body >> :
                   body \in IF fetched.threw \/ notOk(fetched.value) THEN { Null }
                            ELSE ReadOutcomes } :
               fetched \in FetchOutcomes }

\* Mutant of urlOf: the URL field is read again when the import resumes
urlOf_current(task, current) == current

\* readFromUrl(googleSheetUrl) : the value the URL field had when 'Importa' was clicked
urlOf(task, current) == task.url

\* What is typed in the translation field: the translation of "cat", or nothing yet
Guesses == { << "G", "a", "t", "t", "o", " " >> }

\* parse(payload, type) of the payloads above, which depends on them alone
parseOutcomes ==
  [payload \in Payloads |-> [type \in { "array", "string" } |-> parse(payload, type)]]

\* What an import came to: an error thrown, no record, or records
resultOf(outcome) ==
  IF outcome.threw THEN "threw"
  ELSE IF Len(outcome.value) = 0 THEN "empty"
  ELSE "records"

SetupScreen == IF variant = "App.tsx" THEN "setup" ELSE "dataset-upload"

\* screen === 'quiz' && currentWord : the quiz section is rendered
QuizRendered == screen = "quiz" /\ quizState.currentIndex < Len(entries)

Without(task) == inFlight (-) SetToBag({ task })

With(bag, task) == bag (+) SetToBag({ task })

\* 'Inizia adesso'
openSetup ==
  /\ screen = "intro"
  /\ screen' = IF variant = "App.tsx" THEN "setup" ELSE "mother-language"
  /\ settled' = Unset
  /\ UNCHANGED << variant, learningLanguages, entries, fileName, loadError, isLoadingSheet,
                  googleSheetUrl, quizState, inFlight >>
  /\ UNCHANGED << coreVars, parsed, legacy, normalized >>

\* part_000, 'Continua' on the mother-language screen
openDatasetUpload ==
  /\ variant = "part_000" /\ screen = "mother-language"
  /\ screen' = "dataset-upload"
  /\ settled' = Unset
  /\ UNCHANGED << variant, learningLanguages, entries, fileName, loadError, isLoadingSheet,
                  googleSheetUrl, quizState, inFlight >>
  /\ UNCHANGED << coreVars, parsed, legacy, normalized >>

\* 'Indietro': App.tsx also resets the quiz
goBack ==
  /\ \/ /\ variant = "App.tsx" /\ screen = "setup"
        /\ screen' = "intro"
        /\ quizState' = resetQuiz(quizState)
     \/ /\ variant = "part_000" /\ screen = "mother-language"
        /\ screen' = "intro"
        /\ UNCHANGED quizState
     \/ /\ variant = "part_000" /\ screen = "dataset-upload"
        /\ screen' = "mother-language"
        /\ UNCHANGED quizState
  /\ settled' = Unset
  /\ UNCHANGED << variant, learningLanguages, entries, fileName, loadError, isLoadingSheet,
                  googleSheetUrl, inFlight >>
  /\ UNCHANGED << coreVars, parsed, legacy, normalized >>

\* The checkbox of a language: ticked adds the code, unticked removes it
setLearningLanguages(code) ==
  /\ screen = SetupScreen
  /\ learningLanguages' =
       IF code \in learningLanguages THEN learningLanguages \ { code }
       ELSE learningLanguages \cup { code }
  /\ settled' = Unset
  /\ UNCHANGED << variant, screen, entries, fileName, loadError, isLoadingSheet,
                  googleSheetUrl, quizState, inFlight >>
  /\ UNCHANGED << coreVars, parsed, legacy, normalized >>

\* The URL field
setGoogleSheetUrl(value) ==
  /\ screen = SetupScreen
  /\ googleSheetUrl' = value
  /\ settled' = Unset
  /\ UNCHANGED << variant, screen, learningLanguages, entries, fileName, loadError,
                  isLoadingSheet, quizState, inFlight >>
  /\ UNCHANGED << coreVars, parsed, legacy, normalized >>

\* Mutant of noEntries: an empty result is taken for a dataset
noEntries_never(parsedEntries) == FALSE

\* !parsedEntries.length
noEntries(parsedEntries) == Len(parsedEntries) = 0

\* The file input changed: handleFileUpload (App.tsx) or handleFile (part_000),
\* up to file.arrayBuffer() or reader.readAsArrayBuffer(file)
handleFileUpload(file) ==
  /\ screen = SetupScreen
  /\ IF file = Undefined
       THEN UNCHANGED appVars
       ELSE /\ BagCardinality(inFlight) < MaxInFlight
            /\ inFlight' = With(inFlight, [kind |-> "file", file |-> file])
            /\ settled' = Unset
            /\ UNCHANGED << variant, screen, learningLanguages, entries, fileName, loadError,
                            isLoadingSheet, googleSheetUrl, quizState >>
  /\ UNCHANGED << coreVars, parsed, legacy, normalized >>

\* The bytes of the file have come, or the read has failed: the rest of readFile
\* and of handleFileUpload (App.tsx), or reader.onload (part_000, which has no
\* onerror and no try around readWorkbook)
handleFileUpload_resume ==
  /\ \E task \in BagToSet(inFlight) :
     \E data \in IF task.kind = "file" THEN readsOf(task.file) ELSE { } :
       /\ task.kind = "file"
       /\ LET outcome == IF data.threw THEN data ELSE parsed[data.value]["array"] IN
          /\ inFlight' = Without(task)
          /\ settled' = [ import |-> "file",
                          task |-> task,
                          outcome |-> outcome,
                          transport |-> "none",
                          read |-> IF data.threw THEN "none" ELSE "array",
                          readWorkbook |-> IF data.threw THEN FALSE
                                           ELSE ~XLSX_read(data.value, "array").threw,
                          result |-> resultOf(outcome) ]
          /\ IF outcome.threw
               THEN /\ loadError' =
                         IF variant = "part_000" /\ data.threw THEN loadError
                         ELSE Message("Formato file non supportato o file corrotto.")
                    /\ UNCHANGED << entries, fileName >>
             ELSE IF noEntries(outcome.value)
               THEN /\ loadError' = Message("Il file non contiene vocaboli validi.")
                    /\ UNCHANGED << entries, fileName >>
             ELSE /\ entries' = outcome.value
                  /\ fileName' = IF variant = "App.tsx" THEN task.file.name ELSE fileName
                  /\ loadError' = Null
  /\ UNCHANGED << variant, screen, learningLanguages, isLoadingSheet, googleSheetUrl, quizState >>
  /\ UNCHANGED << coreVars, parsed, legacy, normalized >>

\* 'Importa' : handleGoogleSheetImport up to await readFromUrl(googleSheetUrl)
handleGoogleSheetImport ==
  /\ screen = SetupScreen
  /\ IF googleSheetUrl = << >>
       THEN UNCHANGED appVars
       ELSE /\ BagCardinality(inFlight) < MaxInFlight
            /\ isLoadingSheet' = TRUE
            /\ loadError' = Null
            /\ inFlight' = With(inFlight, [kind |-> "sheet", url |-> googleSheetUrl])
            /\ settled' = Unset
            /\ UNCHANGED << variant, screen, learningLanguages, entries, fileName,
                            googleSheetUrl, quizState >>
  /\ UNCHANGED << coreVars, parsed, legacy, normalized >>

\* readFromUrl has settled: fetch, the test of response.ok, the choice of the type,
\* the read of the body, XLSX.read and readWorkbook (none of which touches the
\* state of the application), then the rest of handleGoogleSheetImport
handleGoogleSheetImport_resume ==
  /\ \E task \in BagToSet(inFlight) :
     \E answer \in IF task.kind = "sheet" THEN served(urlOf(task, googleSheetUrl)) ELSE { } :
       /\ task.kind = "sheet"
       /\ LET url == urlOf(task, googleSheetUrl)
              fetched == answer[1]
              body == answer[2]
              failed == fetched.threw \/ notOk(fetched.value)
              type == IF failed THEN "none"
                      ELSE readType(isCsv(fetched.value.contentType, url))
              outcome ==
                IF fetched.threw THEN fetched
                ELSE IF notOk(fetched.value) THEN Thrown("Risposta non valida dal foglio Google.")
                ELSE IF body.threw THEN body
                ELSE parsed[body.value][type]
          IN
          /\ inFlight' = Without(task)
          /\ isLoadingSheet' = FALSE
          /\ settled' = [ import |-> "sheet",
                          task |-> task,
                          outcome |-> outcome,
                          transport |-> IF fetched.threw THEN "rejected"
                                        ELSE IF fetched.value.ok THEN "ok" ELSE "not ok",
                          read |-> IF failed \/ body.threw THEN "none" ELSE type,
                          readWorkbook |-> IF failed \/ body.threw THEN FALSE
                                           ELSE ~XLSX_read(body.value, type).threw,
                          result |-> resultOf(outcome) ]
          /\ IF outcome.threw
               THEN /\ loadError' = Message(outcome.message)
                    /\ UNCHANGED << entries, fileName >>
             ELSE IF noEntries(outcome.value)
               THEN /\ loadError' = Message("Il foglio non contiene vocaboli validi.")
                    /\ UNCHANGED << entries, fileName >>
             ELSE /\ entries' = outcome.value
                  /\ fileName' = IF variant = "App.tsx" THEN Message("Google Sheet") ELSE fileName
                  /\ UNCHANGED loadError
  /\ UNCHANGED << variant, screen, learningLanguages, googleSheetUrl, quizState >>
  /\ UNCHANGED << coreVars, parsed, legacy, normalized >>

\* Mutant of startRefused: the dataset is not looked at
startRefused_languagesOnly(app, dataset, languages) ==
  app = "App.tsx" /\ languages = { }

\* !entries.length || !learningLanguages.length (App.tsx), !entries.length (part_000)
startRefused(app, dataset, languages) ==
  IF app = "App.tsx" THEN Len(dataset) = 0 \/ languages = { }
  ELSE Len(dataset) = 0

\* 'Avvia sessione'
startQuiz ==
  /\ screen = SetupScreen
  /\ IF startRefused(variant, entries, learningLanguages)
       THEN /\ loadError' =
                 IF variant = "App.tsx"
                   THEN Message("Seleziona almeno una lingua e carica un dataset.")
                   ELSE Message("Carica prima un dataset di vocaboli.")
            /\ UNCHANGED << screen, quizState >>
       ELSE /\ quizState' = resetQuiz(quizState)
            /\ screen' = "quiz"
            /\ UNCHANGED loadError
  /\ settled' = IF startRefused(variant, entries, learningLanguages) THEN Unset
                ELSE [started |-> "quiz", left |-> quizState]
  /\ UNCHANGED << variant, learningLanguages, entries, fileName, isLoadingSheet,
                  googleSheetUrl, inFlight >>
  /\ UNCHANGED << coreVars, parsed, legacy, normalized >>

\* The translation field, which is disabled once the word is answered
setGuess(text) ==
  /\ QuizRendered
  /\ ~quizState.isAnswered
  /\ quizState' = [quizState EXCEPT !.guess = text]
  /\ settled' = Unset
  /\ UNCHANGED << variant, screen, learningLanguages, entries, fileName, loadError,
                  isLoadingSheet, googleSheetUrl, inFlight >>
  /\ UNCHANGED << coreVars, parsed, legacy, normalized >>

\* Mutant of alreadyAnswered: a word can be confirmed again
alreadyAnswered_never(state) == FALSE

\* quizState.isAnswered, of the test !word || quizState.isAnswered
alreadyAnswered(state) == state.isAnswered

\* 'Conferma'
handleConfirm ==
  /\ QuizRendered
  /\ IF alreadyAnswered(quizState)
       THEN UNCHANGED appVars
       ELSE LET word == entries[quizState.currentIndex + 1]
                normalizedGuess == toLowerCase(trim(quizState.guess))
                normalizedTranslation == toLowerCase(trim(word.translation))
                isCorrect == normalizedGuess = normalizedTranslation
            IN  /\ quizState' =
                     [quizState EXCEPT
                        !.isAnswered = TRUE,
                        !.feedback =
                          IF isCorrect THEN Message("Bravo, parola esatta")
                          ELSE IF variant = "App.tsx" THEN Message("Risposta sbagliata")
                          ELSE Message("risposta sbagliata"),
                        !.responses = Append(@, [ word |-> word,
                                                  userTranslation |-> quizState.guess,
                                                  isCorrect |-> isCorrect ])]
                /\ settled' = Unset
                /\ UNCHANGED << variant, screen, learningLanguages, entries, fileName,
                                loadError, isLoadingSheet, googleSheetUrl, inFlight >>
  /\ UNCHANGED << coreVars, parsed, legacy, normalized >>

\* 'Prossima'
handleNext ==
  /\ QuizRendered
  /\ IF ~quizState.isAnswered
       THEN UNCHANGED appVars
       ELSE /\ IF quizState.currentIndex >= Len(entries) - 1
                 THEN /\ screen' = "complete"
                      /\ UNCHANGED quizState
                 ELSE /\ quizState' =
                           [quizState EXCEPT
                              !.currentIndex = @ + 1, !.guess = << >>, !.feedback = Null,
                              !.isAnswered = FALSE]
                      /\ UNCHANGED screen
            /\ settled' = Unset
            /\ UNCHANGED << variant, learningLanguages, entries, fileName, loadError,
                            isLoadingSheet, googleSheetUrl, inFlight >>
  /\ UNCHANGED << coreVars, parsed, legacy, normalized >>

\* 'Visualizza insights'
openInsights ==
  /\ screen = "complete"
  /\ screen' = "insights"
  /\ settled' = Unset
  /\ UNCHANGED << variant, learningLanguages, entries, fileName, loadError, isLoadingSheet,
                  googleSheetUrl, quizState, inFlight >>
  /\ UNCHANGED << coreVars, parsed, legacy, normalized >>

\* 'Nuova sessione': App.tsx also resets the quiz
newSession ==
  /\ screen = "insights"
  /\ screen' = SetupScreen
  /\ quizState' = IF variant = "App.tsx" THEN resetQuiz(quizState) ELSE quizState
  /\ settled' = Unset
  /\ UNCHANGED << variant, learningLanguages, entries, fileName, loadError, isLoadingSheet,
                  googleSheetUrl, inFlight >>
  /\ UNCHANGED << coreVars, parsed, legacy, normalized >>

(***************************************************************************)
(* src/src/App.tsx, lines 210-217 (part_000, lines 333-340): accuracy.     *)
(* The numbers of JavaScript are IEEE 754 binary64.  A positive one is     *)
(* mantissa * 2^(exponent - 52), with a mantissa of 53 binary digits, the  *)
(* first of them 1.  The mantissa is held in three limbs << h, m, l >>,    *)
(* h * 2^40 + m * 2^20 + l, with 2^12 <= h < 2^13.  A division and a       *)
(* multiplication return the representable number nearest to the exact     *)
(* result, and the one with an even mantissa when two are as near.         *)
(***************************************************************************)
Limb == 1048576

Zero == [mantissa |-> << 0, 0, 0 >>, exponent |-> 0]

RECURSIVE pow2(_)
pow2(k) == IF k = 0 THEN 1 ELSE 2 * pow2(k - 1)

\* The number of binary digits of a natural number
RECURSIVE bitLength(_)
bitLength(n) == IF n = 0 THEN 0 ELSE 1 + bitLength(n \div 2)

\* mantissa + 1 when up, and the exponent moved when the mantissa reaches 2^53
roundedUp(mantissa, exponent, up) ==
  LET l == mantissa[3] + (IF up THEN 1 ELSE 0)
      m == mantissa[2] + l \div Limb
      h == mantissa[1] + m \div Limb
  IN  IF h = 8192 THEN [mantissa |-> << 4096, 0, 0 >>, exponent |-> exponent + 1]
      ELSE [mantissa |-> << h, m % Limb, l % Limb >>, exponent |-> exponent]

\* The least shift with numerator * 2^shift >= denominator
RECURSIVE shiftOf(_, _)
shiftOf(numerator, denominator) ==
  IF numerator >= denominator THEN 0 ELSE 1 + shiftOf(2 * numerator, denominator)

\* numerator / denominator, for 0 <= numerator <= denominator and 0 < denominator < 2^10:
\* the quotient by long division, 12, 20 and 20 binary digits after the first,
\* then the digit that decides the rounding
divide(numerator, denominator) ==
  IF numerator = 0 THEN Zero
  ELSE LET shift == shiftOf(numerator, denominator)
           r0 == numerator * pow2(shift) - denominator
           h == 4096 + (r0 * 4096) \div denominator
           r1 == (r0 * 4096) % denominator
           m == (r1 * Limb) \div denominator
           r2 == (r1 * Limb) % denominator
           l == (r2 * Limb) \div denominator
           r3 == (r2 * Limb) % denominator
           half == (2 * r3) \div denominator
           rest == (2 * r3) % denominator
           up == half = 1 /\ (rest # 0 \/ l % 2 = 1)
       IN  roundedUp(<< h, m, l >>, 0 - shift, up)

\* number * factor, for a natural factor below 128: the exact product has
\* `dropped` digits more than a mantissa holds
multiply(number, factor) ==
  IF number = Zero \/ factor = 0 THEN Zero
  ELSE LET l == number.mantissa[3] * factor
           m == number.mantissa[2] * factor + l \div Limb
           h == number.mantissa[1] * factor + m \div Limb
           dropped == bitLength(h) - 13
           unit == pow2(dropped)
           low == (l % Limb) % unit
           keptL == (l % Limb) \div unit + ((m % Limb) % unit) * (Limb \div unit)
           keptM == (m % Limb) \div unit + (h % unit) * (Limb \div unit)
           keptH == h \div unit
           up == /\ dropped > 0
                 /\ \/ 2 * low > unit
                    \/ 2 * low = unit /\ keptL % 2 = 1
       IN  roundedUp(<< keptH, keptM, keptL >>, number.exponent + dropped, up)

\* Math.round of a number that is not negative and below 2^12: the integer
\* nearest to it, the larger one when two are as near, floor((floor(2x) + 1) / 2)
Math_round(number) ==
  IF number = Zero \/ number.exponent < 0 - 1 THEN 0
  ELSE (number.mantissa[1] \div pow2(11 - number.exponent) + 1) \div 2

\* quizState.responses.filter((response) => response.isCorrect).length
correctAnswers(responses) ==
  Len(SelectSeq(responses, LAMBDA response : response.isCorrect))

\* Math.round((correctAnswers / quizState.responses.length) * 100), 0 without responses
accuracyOf(responses) ==
  IF Len(responses) = 0 THEN 0
  ELSE Math_round(multiply(divide(correctAnswers(responses), Len(responses)), 100))

\* const accuracy = useMemo(..., [quizState.responses])
accuracy == accuracyOf(quizState.responses)

InitApp ==
  /\ coreInit
  /\ variant \in Variants
  /\ appInit
  /\ parsed = parseOutcomes
  /\ legacy = Unset
  /\ normalized = Unset

NextApp ==
  \/ openSetup
  \/ openDatasetUpload
  \/ goBack
  \/ \E code \in LanguageCodes : setLearningLanguages(code)
  \/ \E value \in Urls : setGoogleSheetUrl(value)
  \/ \E file \in { Undefined, TheFile } : handleFileUpload(file)
  \/ handleFileUpload_resume
  \/ handleGoogleSheetImport
  \/ handleGoogleSheetImport_resume
  \/ startQuiz
  \/ \E text \in Guesses : setGuess(text)
  \/ handleConfirm
  \/ handleNext
  \/ openInsights
  \/ newSession

SpecApp == InitApp /\ [][NextApp]_vars

(***************************************************************************)
(* The quiz alone, taken up after some words were answered: a dataset of   *)
(* one more word than were answered, the first answers right and the       *)
(* others wrong                                                            *)
(***************************************************************************)
MaxResponses == 40

\* The record rowsToEntries makes of the sample row
SampleEntry ==
  [ unknown |-> trim(toStringOrEmpty(Cat)),
    translation |-> trim(toStringOrEmpty(Gatto)),
    transliteration |-> transliterationOf(Neko) ]

\* What handleConfirm records of a guess that is the translation, and of no guess
RightResponse ==
  [ word |-> SampleEntry,
    userTranslation |-> << "G", "a", "t", "t", "o", " " >>,
    isCorrect |-> TRUE ]

WrongResponse == [word |-> SampleEntry, userTranslation |-> << >>, isCorrect |-> FALSE]

InitQuiz ==
  /\ coreInit
  /\ variant \in Variants
  /\ parsed = parseOutcomes
  /\ legacy = Unset
  /\ normalized = Unset
  /\ screen = "quiz"
  /\ learningLanguages = LanguageCodes
  /\ fileName = Null
  /\ loadError = Null
  /\ isLoadingSheet = FALSE
  /\ googleSheetUrl = PlainUrl
  /\ inFlight = EmptyBag
  /\ settled = Unset
  /\ \E total \in 0..(MaxResponses - 1) :
       \E correct \in 0..total :
         /\ entries = [i \in 1..(total + 1) |-> SampleEntry]
         /\ quizState =
              [ currentIndex |-> total,
                guess |-> << >>,
                feedback |-> Null,
                isAnswered |-> FALSE,
                responses |->
                  [i \in 1..total |-> IF i <= correct THEN RightResponse ELSE WrongResponse] ]

NextQuiz ==
  \/ \E text \in Guesses : setGuess(text)
  \/ handleConfirm
  \/ handleNext
  \/ openInsights

SpecQuiz == InitQuiz /\ [][NextQuiz]_vars

\* The imports alone, of files and sheets whose content is known from the start
NextImports ==
  \/ openSetup
  \/ openDatasetUpload
  \/ \E value \in KnownUrls : setGoogleSheetUrl(value)
  \/ \E file \in KnownFiles : handleFileUpload(file)
  \/ handleFileUpload_resume
  \/ handleGoogleSheetImport
  \/ handleGoogleSheetImport_resume

SpecImports == InitApp /\ [][NextImports]_vars

(***************************************************************************)
(* Vocabulary of the properties                                            *)
(***************************************************************************)
Roles == { "unknown", "translation", "transliteration" }

\* The call has taken a header decision on a non-empty grid
Decided == pc \in { "reduce", "returned", "decided" } /\ rows # << >>

\* rowsToEntries has returned on a non-empty grid
Returned == pc = "returned" /\ rows # << >>

\* The cell, printed as text, matches a keyword of the role
MatchesRole(cell, role) ==
  LET key == normalizeHeaderValue(toStringOrEmpty(cell))
  IN  \E alias \in Range(HEADER_ALIASES[role]) : matchesAlias(key, alias)

\* Zero-based columns of the first row that match the role
MatchingColumns(role) ==
  { i \in 0..(Len(rows[1]) - 1) : MatchesRole(rows[1][i + 1], role) }

Min(S) == CHOOSE x \in S : \A y \in S : x <= y

\* The grid rows that are data: all but a detected header
DataRowNumbers ==
  IF detection.hasHeader THEN 2..Len(rows) ELSE 1..Len(rows)

\* The value is missing, empty or white space only once printed as text
BlankText(v) ==
  \A i \in 1..Len(toStringOrEmpty(v)) : toStringOrEmpty(v)[i] \in Whitespace

UnknownCell(r) == at(rows[r], unknownIndex(detection))

TranslationCell(r) == at(rows[r], translationIndex(detection))

TransliterationCell(r) == at(rows[r], transliterationIndex(detection))

\* Row r reads like a header: both cells match the keywords of their role
HeaderLike(r) ==
  MatchesRole(UnknownCell(r), "unknown") /\ MatchesRole(TranslationCell(r), "translation")

\* Row r passes both gates of the reduce callback
Kept(r) ==
  ~BlankText(UnknownCell(r)) /\ ~BlankText(TranslationCell(r)) /\ ~HeaderLike(r)

Trimmed(s) == s = << >> \/ (s[1] \notin Whitespace /\ s[Len(s)] \notin Whitespace)

(***************************************************************************)
(* C1  Header decision.  On a non-empty grid the decision is Header        *)
(* exactly when some cell of the first row matches a keyword of one of the *)
(* three roles.  With a header the first row yields no record; without one *)
(* the first row is processed like any data row: it yields a record        *)
(* exactly when it passes the gates with the positional columns 0 and 1.   *)
(***************************************************************************)
C1_HeaderDecision ==
  /\ Decided =>
       (detection.hasHeader <=> \E role \in Roles : MatchingColumns(role) # { })
  /\ Returned =>
       IF detection.hasHeader
         THEN 1 \notin Range(origin)
         ELSE /\ unknownIndex(detection) = 0
              /\ translationIndex(detection) = 1
              /\ (1 \in Range(origin) <=> Kept(1))

\* A header was detected and a record was still produced from the rows below it
C1_Witness ==
  Returned /\ detection.hasHeader /\ accumulator # << >>

(***************************************************************************)
(* C2  Column resolution.  With a header, each role's index is the         *)
(* leftmost column of the first row that matches that role's own keywords, *)
(* and the fixed fallback (0, 1, 2) when no column matches; two roles may  *)
(* resolve to the same column.                                             *)
(***************************************************************************)
Resolved(role, fallback) ==
  IF MatchingColumns(role) = { } THEN fallback ELSE Min(MatchingColumns(role))

C2_ColumnResolution ==
  (Decided /\ detection.hasHeader) =>
     /\ detection.indexes.unknown = Resolved("unknown", 0)
     /\ detection.indexes.translation = Resolved("translation", 1)
     /\ detection.indexes.transliteration = Resolved("transliteration", 2)

\* Two roles resolved to the same column: one by a match, the other by fallback
C2_Witness ==
  /\ Decided /\ detection.hasHeader
  /\ detection.indexes.unknown = detection.indexes.translation
  /\ MatchingColumns("unknown") = { }
  /\ Cardinality(MatchingColumns("translation")) > 0

(***************************************************************************)
(* C3  Drop policy.  A data row whose cell at the resolved unknown-word    *)
(* index or translation index is missing, empty or white space only never *)
(* yields a record; every record has a non-empty, trimmed unknown and      *)
(* translation.                                                            *)
(***************************************************************************)
C3_DropPolicy ==
  /\ \A k \in 1..Len(accumulator) :
       /\ accumulator[k].unknown # << >> /\ Trimmed(accumulator[k].unknown)
       /\ accumulator[k].translation # << >> /\ Trimmed(accumulator[k].translation)
  /\ Returned =>
       \A r \in DataRowNumbers :
         (BlankText(UnknownCell(r)) \/ BlankText(TranslationCell(r))) => r \notin Range(origin)

\* A row with a blank translation was dropped between two rows that were kept
C3_Witness ==
  /\ Returned
  /\ Len(accumulator) > 0
  /\ \E r \in DataRowNumbers :
       ~BlankText(UnknownCell(r)) /\ BlankText(TranslationCell(r)) /\ r \notin Range(origin)

(***************************************************************************)
(* C4  Order.  The returned array holds one record for every kept data     *)
(* row and nothing else, in grid order: record k is built from row         *)
(* origin[k], the origins increase strictly, and two data rows with the    *)
(* same texts give two records.                                            *)
(***************************************************************************)
C4_GridOrder ==
  Returned =>
    /\ Len(origin) = Len(accumulator)
    /\ \A i, j \in 1..Len(origin) : i < j => origin[i] < origin[j]
    /\ Range(origin) = { r \in DataRowNumbers : Kept(r) }
    /\ \A k \in 1..Len(accumulator) :
         /\ accumulator[k].unknown = trim(toStringOrEmpty(UnknownCell(origin[k])))
         /\ accumulator[k].translation = trim(toStringOrEmpty(TranslationCell(origin[k])))

\* Two equal records from two rows, with another record between them
C4_Witness ==
  /\ Returned
  /\ \E i, j \in 1..Len(accumulator) :
       i + 1 < j /\ accumulator[i] = accumulator[j] /\ accumulator[i + 1] # accumulator[i]

(***************************************************************************)
(* C5  Purity.  rowsToEntries and detectHeaders keep nothing between       *)
(* calls: every name they bind is a local const, and the keyword tables    *)
(* are never written.  They are operators of their argument here, so two   *)
(* calls on the same grid agree by definition; no formula is stated.       *)
(***************************************************************************)

(***************************************************************************)
(* C6  Case and diacritics.  Replacing, in the first row, every upper-case *)
(* letter by its lower-case form and every accented letter by its base     *)
(* letter changes neither the header decision nor any resolved column.     *)
(***************************************************************************)
\* The lower-case base letter of an upper-case or accented letter
PlainChar(c) ==
  IF \E i \in 1..Len(UpperLetters) : UpperLetters[i] = c
    THEN LowerLetters[CHOOSE i \in 1..Len(UpperLetters) : UpperLetters[i] = c]
  ELSE IF c \in { "U+00F3", "U+00D3" } THEN "o"
  ELSE IF c \in { "U+00FC", "U+00DC" } THEN "u"
  ELSE IF c \in { "U+00E8", "U+00C8" } THEN "e"
  ELSE c

PlainCell(cell) ==
  IF cell.kind = "string"
    THEN Str([i \in 1..Len(cell.chars) |-> PlainChar(cell.chars[i])])
    ELSE cell

PlainRow(row) == [i \in 1..Len(row) |-> PlainCell(row[i])]

C6_CaseAndDiacritics ==
  Decided => detectHeaders(<< PlainRow(rows[1]) >>) = detection

\* The translation column was resolved to the accented, mixed-case label
C6_Witness ==
  /\ Decided /\ detection.hasHeader
  /\ at(rows[1], detection.indexes.translation) = Traduzione
  /\ PlainCell(Traduzione) # Traduzione

(***************************************************************************)
(* C7  Column resolution under permutation.                                *)
(* As stated: for every ordering of the header cells "Word" and "Meaning"  *)
(* the unknown column is 0 and the translation column is 1.                *)
(***************************************************************************)
WordAndMeaning ==
  /\ Decided
  /\ Cardinality({ i \in 1..Len(rows[1]) : rows[1][i] = Word }) = 1
  /\ Cardinality({ i \in 1..Len(rows[1]) : rows[1][i] = Meaning }) = 1
  /\ \A i \in 1..Len(rows[1]) :
       rows[1][i] \in { Word, Meaning } \/ \A role \in Roles : ~MatchesRole(rows[1][i], role)

C7_FixedColumns ==
  (WordAndMeaning /\ Len(rows[1]) = 2) =>
     /\ detection.hasHeader
     /\ detection.indexes.unknown = 0
     /\ detection.indexes.translation = 1

(***************************************************************************)
(* C7 (amended)  Wherever "Word" and "Meaning" stand in the first row, the *)
(* unknown column is the column of "Word" and the translation column is    *)
(* the column of "Meaning": 0 and 1 for <<Word, Meaning>>, 1 and 0 for     *)
(* <<Meaning, Word>>.                                                      *)
(***************************************************************************)
C7_ColumnsFollowLabels ==
  WordAndMeaning =>
     /\ detection.hasHeader
     /\ at(rows[1], detection.indexes.unknown) = Word
     /\ at(rows[1], detection.indexes.translation) = Meaning

\* The two labels in the opposite order
C7_Witness ==
  /\ WordAndMeaning
  /\ rows[1] = << Meaning, Word >>
  /\ detection.indexes.unknown = 1
  /\ detection.indexes.translation = 0

(***************************************************************************)
(* C8  Optional transliteration.  As stated: whenever the cell at the      *)
(* transliteration index is missing, empty or white space only, the        *)
(* record's transliteration is undefined, never the empty string.          *)
(***************************************************************************)
C8_AbsentWhenBlank ==
  \A k \in 1..Len(accumulator) :
    BlankText(TransliterationCell(origin[k])) => accumulator[k].transliteration = Undefined

(***************************************************************************)
(* C9  No error.  No call throws, whatever the grid; rowsToEntries returns *)
(* an array of records; on the empty grid it returns the empty array and   *)
(* detectHeaders decides NoHeader.                                         *)
(***************************************************************************)
C9_NoError ==
  /\ pc # "threw"
  /\ pc = "reduce" => cursor <= Len(effectiveRows(rows, detection)) + 1
  /\ pc = "returned" =>
       \A k \in 1..Len(accumulator) :
         DOMAIN accumulator[k] = { "unknown", "translation", "transliteration" }
  /\ (pc = "returned" /\ rows = << >>) => accumulator = << >>
  /\ (pc = "decided" /\ rows = << >>) => detection = [hasHeader |-> FALSE]

\* detectHeaders has returned on the empty grid
C9_Witness ==
  pc = "decided" /\ rows = << >> /\ ~detection.hasHeader

(***************************************************************************)
(* C10  Ragged rows.  A data row too short to have a cell at a resolved    *)
(* index is read as having an absent cell there: without a unknown or      *)
(* translation cell the row is dropped, and without a transliteration cell *)
(* the row, if it passes the gates, is kept with transliteration           *)
(* undefined.  Nothing throws.                                             *)
(***************************************************************************)
C10_RaggedRows ==
  /\ pc # "threw"
  /\ Returned =>
       \A r \in DataRowNumbers :
         /\ (Len(rows[r]) <= unknownIndex(detection) \/ Len(rows[r]) <= translationIndex(detection))
              => r \notin Range(origin)
         /\ Len(rows[r]) <= transliterationIndex(detection) =>
              /\ Kept(r) => r \in Range(origin)
              /\ \A k \in 1..Len(origin) :
                   origin[k] = r => accumulator[k].transliteration = Undefined

\* A record was built from a row that has no transliteration cell, under a header
C10_Witness ==
  /\ Returned /\ detection.hasHeader
  /\ \E k \in 1..Len(origin) :
       /\ Len(rows[origin[k]]) <= transliterationIndex(detection)
       /\ accumulator[k].transliteration = Undefined

(***************************************************************************)
(* C11  Indexes and the width of the header row.                           *)
(* As stated: whenever a header is detected, each of the three indexes is  *)
(* a position of the first row, 0 <= index < length of the first row.      *)
(***************************************************************************)
HeaderIndexes ==
  { detection.indexes.unknown, detection.indexes.translation, detection.indexes.transliteration }

C11_WithinWidth ==
  (Decided /\ detection.hasHeader) =>
     \A index \in HeaderIndexes : 0 <= index /\ index < Len(rows[1])

(***************************************************************************)
(* C11 (amended)  Whenever a header is detected, each index is at least 0; *)
(* the index of a role that some cell matches is a position of the first   *)
(* row; the index of a role that no cell matches is its fallback 0, 1 or   *)
(* 2, which lies past the end of a first row that is too short.            *)
(***************************************************************************)
InWidthOrFallback(role, index, fallback) ==
  /\ 0 <= index
  /\ MatchingColumns(role) # { } => index < Len(rows[1])
  /\ index >= Len(rows[1]) => (MatchingColumns(role) = { } /\ index = fallback)

C11_WithinWidthUnlessFallback ==
  (Decided /\ detection.hasHeader) =>
     /\ InWidthOrFallback("unknown", detection.indexes.unknown, 0)
     /\ InWidthOrFallback("translation", detection.indexes.translation, 1)
     /\ InWidthOrFallback("transliteration", detection.indexes.transliteration, 2)

\* A header of two labels: the transliteration index is the fallback, past its end
C11_Witness ==
  /\ Decided /\ detection.hasHeader
  /\ Len(rows[1]) = 2
  /\ detection.indexes.unknown < 2 /\ detection.indexes.translation < 2
  /\ detection.indexes.transliteration = 2

(***************************************************************************)
(* C12  Header-like rows.  A data row (any row when no header is detected) *)
(* whose unknown cell matches the unknown keywords and whose translation   *)
(* cell matches the translation keywords yields no record; a row with both *)
(* texts present where only one of the two cells matches its keywords      *)
(* yields a record.                                                        *)
(***************************************************************************)
OnlyOneMatches(r) ==
  MatchesRole(UnknownCell(r), "unknown") # MatchesRole(TranslationCell(r), "translation")

C12_HeaderLikeRows ==
  Returned =>
    \A r \in DataRowNumbers :
      /\ HeaderLike(r) => r \notin Range(origin)
      /\ (OnlyOneMatches(r) /\ ~BlankText(UnknownCell(r)) /\ ~BlankText(TranslationCell(r)))
           => r \in Range(origin)

\* A row where only the unknown cell is a label was kept
C12_Witness ==
  /\ Returned
  /\ \E r \in DataRowNumbers :
       /\ MatchesRole(UnknownCell(r), "unknown")
       /\ ~MatchesRole(TranslationCell(r), "translation")
       /\ r \in Range(origin)

(***************************************************************************)
(* C13  The grid is only read.  Once detectHeaders or rowsToEntries has    *)
(* been called, and until and after it returns, the caller's grid holds    *)
(* the rows and cells it was passed with, also when the header row was     *)
(* left out of the records.                                                *)
(***************************************************************************)
C13_GridUntouched ==
  pc # "idle" => rows = given

\* rowsToEntries returned records of a grid whose header row it had skipped
C13_Witness ==
  /\ Returned /\ detection.hasHeader
  /\ Len(given) >= 2 /\ Len(accumulator) >= 1
  /\ 1 \notin Range(origin)
  /\ rows = given

(***************************************************************************)
(* C14  Numbers as their text.  A numeric cell and a string cell with the  *)
(* same printed text are treated alike in every role: the grid and the     *)
(* grid with every number replaced by its printed text get the same header *)
(* decision and give the same records.                                     *)
(***************************************************************************)
PrintedCell(cell) == IF cell.kind = "number" THEN Str(toStringOrEmpty(cell)) ELSE cell

PrintedGrid(grid) ==
  [r \in 1..Len(grid) |-> [i \in 1..Len(grid[r]) |-> PrintedCell(grid[r][i])]]

C14_NumbersAsText ==
  /\ Decided => detection = detectHeaders(PrintedGrid(rows))
  /\ Returned => accumulator = rowsToEntries(PrintedGrid(rows))

(***************************************************************************)
(* C15  Keyword match.  The normalized key of a header cell matches a role *)
(* exactly when, for some keyword of the role, the key equals the          *)
(* normalized keyword, or holds it as a substring, or holds it as a token  *)
(* between spaces; an empty keyword, or one that normalizes to nothing,    *)
(* matches no key; the header decision is taken on the normalized keys.    *)
(***************************************************************************)
\* key = before + keyword + after
HoldsAt(key, keyword, before) ==
  /\ before + Len(keyword) <= Len(key)
  /\ \A k \in 1..Len(keyword) : key[before + k] = keyword[k]

IsSubstring(key, keyword) ==
  \E before \in 0..Len(key) : HoldsAt(key, keyword, before)

\* The keyword stands between spaces or the ends of the key, and has no space
IsToken(key, keyword) ==
  /\ \A k \in 1..Len(keyword) : keyword[k] # " "
  /\ \E before \in 0..Len(key) :
       /\ HoldsAt(key, keyword, before)
       /\ before = 0 \/ key[before] = " "
       /\ before + Len(keyword) = Len(key) \/ key[before + Len(keyword) + 1] = " "

KeywordMatch(key, role) ==
  \E alias \in Range(HEADER_ALIASES[role]) :
    LET keyword == normalizedKeywords[alias] IN
    /\ keyword # << >>
    /\ key = keyword \/ IsSubstring(key, keyword) \/ IsToken(key, keyword)

FirstRowKeys ==
  [i \in 1..Len(rows[1]) |-> normalizeHeaderValue(toStringOrEmpty(rows[1][i]))]

C15_KeywordMatch ==
  Decided =>
    LET keys == FirstRowKeys IN
    /\ \A i \in 1..Len(keys) :
         /\ \A role \in Roles :
              includesAlias(keys[i], HEADER_ALIASES[role]) <=> KeywordMatch(keys[i], role)
         /\ ~matchesAlias(keys[i], << >>)
         /\ ~matchesAlias(keys[i], << "-", " " >>)
    /\ detection.hasHeader <=> \E i \in 1..Len(keys) : \E role \in Roles : KeywordMatch(keys[i], role)

\* A header detected through a cell that holds a keyword inside a longer word
C15_Witness ==
  /\ Decided /\ detection.hasHeader
  /\ \A i \in 1..Len(rows[1]) : \A role \in Roles :
       KeywordMatch(FirstRowKeys[i], role) =>
         \A alias \in Range(HEADER_ALIASES[role]) :
           /\ FirstRowKeys[i] # normalizedKeywords[alias]
           /\ ~IsToken(FirstRowKeys[i], normalizedKeywords[alias])

(***************************************************************************)
(* C16  readWorkbook.  The records readWorkbook returns are those of the   *)
(* rows of the first sheet, whatever the other sheets hold; it returns no  *)
(* record, and raises nothing, for a workbook without sheets and for one   *)
(* whose first sheet has no rows.                                          *)
(***************************************************************************)
ReadWorkbookReturned == pc = "returned" /\ workbook # Unset

\* The workbook with every sheet but the first one taken out
FirstSheetOnly(book) ==
  IF book.SheetNames = << >> THEN book
  ELSE OneSheet(book.Sheets[book.SheetNames[1]])

C16_FirstSheetOnly ==
  /\ workbook # Unset => pc # "threw"
  /\ ReadWorkbookReturned =>
       /\ accumulator = readWorkbook(FirstSheetOnly(workbook))
       /\ workbook.SheetNames = << >> => accumulator = << >>
       /\ (workbook.SheetNames # << >> /\ workbook.Sheets[workbook.SheetNames[1]] = << >>)
            => accumulator = << >>

\* Two sheets: the first has no rows, the second has words; no record is returned
C16_Witness ==
  /\ ReadWorkbookReturned
  /\ Len(workbook.SheetNames) = 2
  /\ workbook.Sheets[workbook.SheetNames[1]] = << >>
  /\ readWorkbook(OneSheet(workbook.Sheets[workbook.SheetNames[2]])) # << >>
  /\ accumulator = << >>

\* The locals of the call hold this one
Has(local) == local \in DOMAIN transport

\* readFromUrl has received a success response
Responded == Has("call") /\ transport.call = "readFromUrl" /\ Has("isCsv")

\* The transport signal: 'text/csv' in the content type, or 'format=csv' in the URL
CsvSignal ==
  \/ /\ transport.response.contentType # Null
     /\ IsSubstring(transport.response.contentType.chars, TextCsv)
  \/ IsSubstring(transport.url, FormatCsv)

\* C17: readFromUrl chooses the parse mode from the transport signal alone: the
\* payload is read as text exactly when the content type of the response contains
\* 'text/csv' or the URL contains 'format=csv', and as a binary workbook otherwise;
\* in both modes the workbook XLSX.read made goes through readWorkbook, whose
\* records are what the call returns.
C17_ModeFromTransport ==
  Responded =>
    /\ transport.isCsv <=> CsvSignal
    /\ Has("type") => transport.type = (IF CsvSignal THEN "string" ELSE "array")
    /\ Has("type") /\ pc # "rejected" =>
         /\ workbook = XLSX_read(transport.payload, transport.type).value
         /\ pc = "returned" => accumulator = readWorkbook(workbook)

\* A sheet whose URL alone says CSV was read as text and gave records
C17_Witness ==
  /\ Responded
  /\ Has("type")
  /\ transport.response.contentType = ZipType
  /\ transport.type = "string"
  /\ pc = "returned"
  /\ accumulator # << >>

\* The last step ended an import
ImportEnded == "import" \in DOMAIN settled

\* The step ended a Google Sheet import whose fetch was rejected or whose
\* response was not a success response
TransportFailed ==
  /\ ImportEnded
  /\ settled.import = "sheet"
  /\ settled.transport \in { "rejected", "not ok" }

\* C18: transport errors never reach the core. When the fetch fails or the response
\* is not a success response, the import ends in an error before anything is read
\* or parsed (no XLSX.read, no readWorkbook), and the step that ends it leaves a
\* loadError and leaves entries as they were.
C18_TransportErrorsStayOutside ==
  [][ TransportFailed' =>
        /\ settled'.read = "none"
        /\ ~settled'.readWorkbook
        /\ settled'.result = "threw"
        /\ loadError' # Null
        /\ entries' = entries ]_vars

\* A sheet answered with a response that is not a success, while a dataset was loaded
C18_Witness ==
  /\ TransportFailed
  /\ settled.transport = "not ok"
  /\ loadError = Message("Risposta non valida dal foglio Google.")
  /\ entries # << >>
  /\ ~isLoadingSheet

\* The step ended an import (file or sheet) whose pipeline returned no record
EmptyResult == ImportEnded /\ settled.readWorkbook /\ settled.result = "empty"

\* C19: an empty result is a failure for the caller. The step that ends an import,
\* file or sheet, whose pipeline result is the empty sequence leaves a loadError
\* and leaves entries as they were; and no step replaces entries by an empty
\* sequence.
C19_EmptyResultIsFailure ==
  [][ /\ EmptyResult' => loadError' # Null /\ entries' = entries
      /\ entries' # entries => entries' # << >> ]_vars

\* A file without a valid record was uploaded over a loaded dataset
C19_Witness ==
  /\ EmptyResult
  /\ settled.import = "file"
  /\ loadError = Message("Il file non contiene vocaboli validi.")
  /\ entries # << >>

\* On the quiz screen a dataset is loaded and, in App.tsx, a language is ticked
QuizHasDataset ==
  screen = "quiz" =>
    /\ Len(entries) > 0
    /\ variant = "App.tsx" => learningLanguages # { }

\* C20: a quiz is never started with zero entries. In every reachable state the
\* quiz screen implies a non-empty dataset (and, in App.tsx, a ticked language);
\* and startQuiz with no entries leaves the screen where it is and sets loadError.
C20_NoQuizWithoutEntries ==
  /\ []QuizHasDataset
  /\ [][ startQuiz /\ Len(entries) = 0 => screen' = screen /\ loadError' # Null ]_vars

\* 'Avvia sessione' was refused in App.tsx with a language ticked and no dataset
C20_Witness ==
  /\ variant = "App.tsx"
  /\ screen = "setup"
  /\ learningLanguages # { }
  /\ entries = << >>
  /\ loadError = Message("Seleziona almeno una lingua e carica un dataset.")

\* What the import computes when it runs alone: the parse of its own file, or of
\* the sheet behind its own URL in the mode its own URL and response ask for
Alone(task) ==
  IF task.kind = "file" THEN parsed[task.file.data.value]["array"]
  ELSE LET answer == CHOOSE pair \in served(task.url) : TRUE IN
       parsed[answer[2].value][readType(isCsv(answer[1].value.contentType, task.url))]

\* C21: imports are independent and reentrant. When an import ends while another
\* one (file or sheet) is in flight, whatever steps were interleaved, the record
\* sequence it computed is the one it computes when it runs alone.
C21_ImportsIndependent ==
  [][ ImportEnded' /\ BagCardinality(inFlight) = 2 =>
        settled'.outcome = Alone(settled'.task) ]_vars

\* A sheet import ended with its records while another import was in flight and
\* after the URL field had been changed
C21_Witness ==
  /\ ImportEnded
  /\ settled.import = "sheet"
  /\ ~settled.outcome.threw
  /\ entries = settled.outcome.value
  /\ BagCardinality(inFlight) = 1
  /\ googleSheetUrl # settled.task.url

\* On the 'complete' screen every entry has its response, in the order of the entries
AnsweredInOrder ==
  screen = "complete" =>
    /\ Len(quizState.responses) = Len(entries)
    /\ \A k \in 1..Len(entries) : quizState.responses[k].word = entries[k]

\* C22: the quiz consumes the record sequence in order and without changing it.
\* While the quiz screen is shown, and in the step that leaves it for 'complete',
\* entries stays the same sequence and the index moves from a word to the next
\* one only; on 'complete' the k-th response is the response to the k-th entry.
C22_InOrderUnchanged ==
  /\ []AnsweredInOrder
  /\ [][ screen = "quiz" =>
           /\ entries' = entries
           /\ quizState'.currentIndex \in
                { quizState.currentIndex, quizState.currentIndex + 1 } ]_vars

\* C24: the quiz index stays in bounds under asynchronous imports. On the quiz
\* screen currentIndex < entries.length, so that there is a current word, also
\* when an import started on the setup screen resolves after the quiz started.
C24_IndexInBounds ==
  screen = "quiz" => quizState.currentIndex < Len(entries)

\* The text of the cell of grid row r at the zero-based column, trimmed
TextAt(r, column) == trim(toStringOrEmpty(at(given[r], column)))

\* Grid row r passes the gates when it is read at columns 0 and 1
KeptPositionally(r) ==
  /\ TextAt(r, 0) # << >>
  /\ TextAt(r, 1) # << >>
  /\ ~(MatchesRole(Str(TextAt(r, 0)), "unknown") /\ MatchesRole(Str(TextAt(r, 1)), "translation"))

\* C23: when no header is detected, every row including the first is mapped by
\* position: the records come from the rows that pass the gates at columns 0 and
\* 1, the first row among them, with unknown read from column 0, translation
\* from column 1 and transliteration, when the record has one, from column 2.
C23_PositionalWithoutHeader ==
  Returned /\ ~detection.hasHeader =>
    /\ Range(origin) = { r \in 1..Len(given) : KeptPositionally(r) }
    /\ \A k \in 1..Len(accumulator) :
         /\ accumulator[k].unknown = TextAt(origin[k], 0)
         /\ accumulator[k].translation = TextAt(origin[k], 1)
         /\ accumulator[k].transliteration \in { Undefined, Str(TextAt(origin[k], 2)) }

\* Without a header, the first row gave the first record and a later row gave a
\* record with a transliteration
C23_Witness ==
  /\ Returned /\ ~detection.hasHeader
  /\ Len(accumulator) >= 2
  /\ origin[1] = 1
  /\ accumulator[1].unknown # accumulator[1].translation
  /\ \E k \in 2..Len(accumulator) : accumulator[k].transliteration # Undefined

\* One response for every word before the current one, and one for the current
\* word once it is answered
OneResponsePerIndex ==
  screen = "quiz" =>
    Len(quizState.responses) =
      quizState.currentIndex + (IF quizState.isAnswered THEN 1 ELSE 0)

\* C25: Confirm and Next strictly alternate in a quiz. A response is added only
\* to an unanswered word, which it makes answered; the index moves only from an
\* answered word, to the next one, which is unanswered; so on the quiz screen the
\* number of responses is currentIndex, plus one when the word is answered.
C25_ConfirmNextAlternate ==
  /\ []OneResponsePerIndex
  /\ [][ screen = "quiz" /\ screen' = "quiz" =>
           /\ quizState'.responses # quizState.responses =>
                /\ ~quizState.isAnswered /\ quizState'.isAnswered
                /\ Len(quizState'.responses) = Len(quizState.responses) + 1
                /\ quizState'.currentIndex = quizState.currentIndex
           /\ quizState'.currentIndex # quizState.currentIndex =>
                /\ quizState.isAnswered /\ ~quizState'.isAnswered
                /\ quizState'.currentIndex = quizState.currentIndex + 1
                /\ quizState'.responses = quizState.responses ]_vars

\* The second word has been answered after the first one
C25_Witness ==
  /\ screen = "quiz"
  /\ quizState.currentIndex = 1
  /\ quizState.isAnswered
  /\ Len(quizState.responses) = 2

\* C26: every quiz session starts clean. In the step that brings the quiz screen,
\* also after a completed session and 'Nuova sessione', currentIndex becomes 0,
\* responses empty and isAnswered false, and no feedback and no guess remain.
C26_CleanStart ==
  [][ screen # "quiz" /\ screen' = "quiz" =>
        /\ quizState'.currentIndex = 0
        /\ quizState'.responses = << >>
        /\ ~quizState'.isAnswered
        /\ quizState'.feedback = Null
        /\ quizState'.guess = << >> ]_vars

\* A quiz has started over the state a completed session had left (part_000 keeps
\* it through 'Nuova sessione')
C26_Witness ==
  /\ screen = "quiz"
  /\ "started" \in DOMAIN settled
  /\ settled.left.responses # << >>
  /\ settled.left.feedback # Null
  /\ quizState.responses = << >>

\* A Google Sheet import waits for its answer
SheetInFlight == \E task \in BagToSet(inFlight) : task.kind = "sheet"

\* C27: the loading flag of the Google Sheet import. isLoadingSheet is true only
\* while a sheet import is in flight; the step that ends a sheet import, whether
\* it succeeded, gave no entries or failed, sets the flag back to false; after a
\* successful import loadError is null, after a failed or empty one it is set.
C27_LoadingFlag ==
  /\ [](isLoadingSheet => SheetInFlight)
  /\ [][ ImportEnded' /\ settled'.import = "sheet" =>
           /\ ~isLoadingSheet'
           /\ settled'.result = "records" => loadError' = Null
           /\ settled'.result # "records" => loadError' # Null ]_vars

\* Both earlier copies have been called on the grid
Compared == pc = "compared"

\* C28: the two earlier copies of the header logic agree and keep the fallback.
\* On every grid the second detectHeaders of xlsx.ts returns the header decision
\* and the three column indexes that the detectHeaders of the single-file app
\* returns (0, 1, 2 for a role that no cell of the first row matches), and the
\* two rowsToEntries return the same records.
C28_LegacyCopiesAgree ==
  Compared =>
    /\ legacy.xlsx.detection = legacy.part_000.detection
    /\ legacy.xlsx.entries = legacy.part_000.entries

\* The percentage of correct responses, rounded to the nearest integer and
\* upwards from a half, as Math.round does
roundedPercentage(correct, total) == (200 * correct + total) \div (2 * total)

\* The guess and the translation are equal once trimmed and lower-cased
SameText(response) ==
  toLowerCase(trim(response.userTranslation)) = toLowerCase(trim(response.word.translation))

\* C29: accuracy is 0 when no response has been recorded, and otherwise the
\* rounded percentage of correct responses, round(100 * correct / total); it
\* is always an integer between 0 and 100; and a response is correct iff the
\* trimmed, lower-cased guess equals the trimmed, lower-cased translation of
\* the word.
C29_AccuracyIsRoundedPercentage ==
  /\ accuracy \in 0..100
  /\ Len(quizState.responses) = 0 => accuracy = 0
  /\ Len(quizState.responses) > 0 =>
       accuracy = roundedPercentage(correctAnswers(quizState.responses),
                                    Len(quizState.responses))
  /\ \A i \in 1..Len(quizState.responses) :
       quizState.responses[i].isCorrect <=> SameText(quizState.responses[i])

\* normalizeHeaderValue has been called
Normalized == pc = "normalized"

\* Only a-z, 0-9 and single spaces, and no space at either end
Canonical(text) ==
  /\ \A i \in 1..Len(text) : text[i] \in AlphaNumeric \cup { " " }
  /\ \A i \in 1..(Len(text) - 1) : ~(text[i] = " " /\ text[i + 1] = " ")
  /\ text # << >> => text[1] # " " /\ text[Len(text)] # " "

\* C30: normalizeHeaderValue is idempotent and canonical.  Normalizing its
\* result again returns the result unchanged, and the result holds only a-z,
\* 0-9 and single spaces, with no space at its start or at its end.
C30_NormalizeIdempotentCanonical ==
  Normalized =>
    /\ normalizeHeaderValue(normalized.result) = normalized.result
    /\ Canonical(normalized.result)

\* A text with a capital, an accent, a hyphen and white space around a tab was
\* normalized to two words
C30_Witness ==
  /\ Normalized
  /\ normalized.value = << "W", "U+0009", "U+00D3", " " >>
  /\ normalized.result = << "w", " ", "o" >>

====
